---------------------------- MODULE Spec2Model ----------------------------
(***************************************************************************)
(* PosePhase: the per-frame analytics pipeline of core/session_runner.py   *)
(* (phase FSM -> rep counter -> form evaluator), the generic transition    *)
(* engine of core/fsm/fsm_base.py and the RepCounter of                    *)
(* core/rep_counter.py.                                                    *)
(*                                                                         *)
(* Angles are whole degrees, velocities whole degrees per frame, a score   *)
(* is kept in tenths (10 = 1.0, a penalty of 0.3 = 3).  Python's None is   *)
(* the string "None" for phases and labels and NoAngle (-1) for the        *)
(* evaluator's optional minima (real angles are >= 0).                     *)
(*                                                                         *)
(* The feature vector a frame hands to the FSM (the output of              *)
(* FeatureExtractor.compute_all and SignalSmoother.update) and the label   *)
(* of the frame (ExerciseClassifier.predict, or the forced label) are the  *)
(* inputs of SessionFrame, drawn from the bounded sets below.              *)
(* SessionFrame is run()'s loop body from the exercise selection to the    *)
(* form score (FSM, RepCounter, FormEvaluator); nothing computed after it  *)
(* in the loop body is read by these three objects.                        *)
(*                                                                         *)
(* Specifications:                                                         *)
(*   Spec     the session: frames of any label, or of the forced label     *)
(*   SpecRep  a RepCounter alone, fed arbitrary phase sequences            *)
(*   SpecFsm  a FiniteStateMachine alone, with arbitrary registered rules  *)
(*   SpecDet  an FSM variant run on a sequence, reset, and run again       *)
(***************************************************************************)
EXTENDS Integers, Sequences, FiniteSets, Bags, TLC

VARIABLES
    cfg,              \* SessionRunner.cfg: thresholds per exercise and form
    forced_exercise,  \* run(forced_exercise=...): "None" or a label
    current_ex,       \* SessionRunner.current_ex
    fsm,              \* SessionRunner.fsm: [initial, current, ctx, transitions, th]
    form,             \* SessionRunner.form: the FormEvaluator's fields
    reps,             \* SessionRunner.reps: [rep_count, prev]
    feat,             \* features of the frame or update processed last
    phase_score,      \* scorePhase's result for that frame: [score, warnings]
    last,             \* history: what the last step was and what it started from
    rep_frames,       \* history: what the frames of the current rep did
    fed,              \* history: phases fed to a bare RepCounter
    det,              \* history: the two runs of the replay check
    smoother,         \* SessionRunner.smoother: [method, alpha, q, r, filters]
    smoothed,         \* history: the last SignalSmoother.update call
    called,           \* history: the last call of a function checked alone
    audio,            \* SessionRunner.audio: the AudioFeedback's fields, _q's items
    thr,              \* the thread calling speak/close, the TTS worker, the clock
    feats,            \* SessionRunner.feats: the FeatureExtractor's histories
    runner,           \* SessionRunner's counters, buffers, loggers and summary
    run               \* run(): its arguments, locals, stream and position

vars == <<cfg, forced_exercise, current_ex, fsm, form, reps, feat,
          phase_score, last, rep_frames, fed, det, smoother, smoothed,
          called, audio, thr, feats, runner, run>>

(* The pipeline core, and the objects a specification of the core leaves
   alone. *)
coreVars == <<cfg, forced_exercise, current_ex, fsm, form, reps, feat,
              phase_score, last, rep_frames, fed, det>>

restVars == <<smoother, smoothed, called, audio, thr, feats, runner, run>>

-----------------------------------------------------------------------------
(* Bounds *)

MaxReps == 2         \* frames are processed while rep_count < MaxReps
MaxFed == 5          \* length of a phase sequence fed to a bare RepCounter
MaxRules == 3        \* rules registered on a bare FiniteStateMachine
MaxSeq == 3          \* length of a feature sequence that is replayed
MaxUpdates == 3      \* calls of update on a SignalSmoother alone
MaxCalls == 3        \* calls of speak and close on an AudioFeedback alone
MaxRun == 4          \* frames a run() reads from its stream
MaxCfg == 3          \* frames of a session with an incomplete configuration
MaxRepArg == 6       \* largest rep_count given to FeedbackEngine.generate
MaxLog == 6          \* processed frames of a session whose logs are followed
MaxForced == 8       \* processed frames of a session in forced mode
MaxSamples == 7      \* samples given to a FeatureExtractor's velocity alone

-----------------------------------------------------------------------------
(* core/fsm/states.py *)

PhaseName == {"START", "DESCENDING", "BOTTOM", "ASCENDING", "TOP", "RESET"}

None == "None"
NoAngle == 0 - 1

Exercises == {"squat", "pushup", "lunge"}

TopPhases == {"START", "TOP", "RESET"}

Min2(a, b) == IF a <= b THEN a ELSE b

Abs(x) == IF x < 0 THEN 0 - x ELSE x

-----------------------------------------------------------------------------
(* Configuration (config/thresholds.yaml is read by the launchers; the     *)
(* values are inputs of the session).                                      *)

Thresholds ==
    [squat  |-> [stand_knee |-> 170, stand_hip |-> 170, bottom_knee |-> 80,
                 vel_eps |-> 5],
     pushup |-> [top_elbow |-> 170, bottom_elbow |-> 80, plank_line |-> 175,
                 vel_eps |-> 5],
     lunge  |-> [stand_front_knee |-> 170, stand_back_knee |-> 170,
                 bottom_front_knee |-> 80, bottom_back_knee |-> 110,
                 vel_eps |-> 5],
     form   |-> [squat  |-> [sym_knee_max |-> 15, bottom_knee_max |-> 80],
                 pushup |-> [plank_min |-> 160, bottom_elbow_max |-> 80],
                 lunge  |-> [bottom_front_knee_max |-> 80,
                             bottom_back_knee_max |-> 110]]]

Configs == {Thresholds}

-----------------------------------------------------------------------------
(* Frame inputs: the smoothed feature vectors, one family per exercise;    *)
(* the features an exercise does not read stay at the standing pose.       *)
(* The values sit on the thresholds and on both sides of them: 80 is the   *)
(* bottom angle, 170 the stand angle, 110 lies between (and is the back    *)
(* knee's bottom angle); 5 and -5 are vel_eps and -vel_eps, 6 and -6 lie   *)
(* beyond them.                                                            *)

Angles == {80, 110, 170}
Vels == {0 - 6, 0 - 5, 0, 5, 6}

Standing ==
    [knee_angle_avg |-> 170, knee_vel_avg |-> 0, hip_angle_avg |-> 170,
     sym_knee |-> 0, elbow_angle_avg |-> 170, elbow_vel_avg |-> 0,
     shoulder_hip_ankle_angle_avg |-> 175, front_knee_angle |-> 170,
     back_knee_angle |-> 170, front_knee_vel |-> 0]

SquatFrames ==
    {[Standing EXCEPT !.knee_angle_avg = k, !.knee_vel_avg = v,
                      !.hip_angle_avg = h[1], !.sym_knee = h[2]] :
        k \in Angles, v \in Vels, h \in {<<170, 0>>, <<100, 0>>, <<170, 20>>}}

PushupFrames ==
    {[Standing EXCEPT !.elbow_angle_avg = e, !.elbow_vel_avg = v,
                      !.shoulder_hip_ankle_angle_avg = p] :
        e \in Angles, v \in Vels, p \in {150, 175}}

LungeFrames ==
    {[Standing EXCEPT !.front_knee_angle = p[1], !.back_knee_angle = p[2],
                      !.front_knee_vel = v] :
        p \in {q \in Angles \X Angles : q[1] <= q[2]}, v \in Vels}

Frames == SquatFrames \cup PushupFrames \cup LungeFrames

(* The frames that come with a label: the classifier labels a frame from
   the same features the FSM of that exercise reads. *)
FramesOf(label) ==
    CASE label = "squat"  -> SquatFrames
      [] label = "pushup" -> PushupFrames
      [] label = "lunge"  -> LungeFrames

-----------------------------------------------------------------------------
(* core/rep_counter.py *)

RepCounterNew == [rep_count |-> 0, prev |-> None]

RepCounterReset(r) == [rep_count |-> 0, prev |-> None]

RepCounterUpdate_TwoTests(r, state) ==
    IF r.prev = None
    THEN [r EXCEPT !.prev = state]
    ELSE [rep_count |-> r.rep_count
                        + (IF r.prev = "ASCENDING" THEN 1 ELSE 0)
                        + (IF state \in {"START", "TOP"} THEN 1 ELSE 0),
          prev |-> state]

RepCounterUpdate_CountsFirst(r, state) ==
    [rep_count |-> IF state \in {"START", "TOP"} /\ r.prev \in {None, "ASCENDING"}
                   THEN r.rep_count + 1 ELSE r.rep_count,
     prev |-> state]

RepCounterUpdate(r, state) ==
    IF r.prev = None
    THEN [r EXCEPT !.prev = state]
    ELSE [rep_count |-> IF r.prev = "ASCENDING" /\ state \in {"START", "TOP"}
                        THEN r.rep_count + 1 ELSE r.rep_count,
          prev |-> state]

-----------------------------------------------------------------------------
(* core/fsm/fsm_base.py *)

NoTransitions == [s \in PhaseName |-> <<>>]

FsmNew(initial) ==
    [initial |-> initial, current |-> initial, ctx |-> <<>>,
     transitions |-> NoTransitions]

FsmReset_KeepsCurrent(m) == [m EXCEPT !.ctx = <<>>]

FsmReset(m) == [m EXCEPT !.current = m.initial, !.ctx = <<>>]

AddTransition(m, from_s, to_s, cond) ==
    [m EXCEPT !.transitions[from_s] =
        Append(@, [to_state |-> to_s, condition |-> cond])]

(* The predicates the three variants register (lambda f, c: ...). *)

SquatStartToDescending(f, th) ==
    f.knee_angle_avg < th.stand_knee /\ f.knee_vel_avg < 0 - th.vel_eps

SquatDescendingToBottom_NoVelocity(f, th) ==
    f.knee_angle_avg <= th.bottom_knee

SquatDescendingToBottom(f, th) ==
    f.knee_angle_avg <= th.bottom_knee /\ Abs(f.knee_vel_avg) <= th.vel_eps

SquatDescendingToAscending(f, th) ==
    f.knee_vel_avg > th.vel_eps /\ f.knee_angle_avg > th.bottom_knee

SquatBottomToAscending(f, th) ==
    f.knee_vel_avg > th.vel_eps

SquatAscendingToStart(f, th) ==
    f.knee_angle_avg >= th.stand_knee /\ f.hip_angle_avg >= th.stand_hip

PushupTopToDescending(f, th) ==
    f.elbow_angle_avg < th.top_elbow /\ f.elbow_vel_avg < 0 - th.vel_eps

PushupDescendingToBottom(f, th) ==
    f.elbow_angle_avg <= th.bottom_elbow /\ Abs(f.elbow_vel_avg) <= th.vel_eps

PushupDescendingToAscending(f, th) ==
    f.elbow_vel_avg > th.vel_eps /\ f.elbow_angle_avg > th.bottom_elbow

PushupBottomToAscending(f, th) ==
    f.elbow_vel_avg > th.vel_eps

PushupAscendingToTop_ElbowOnly(f, th) ==
    f.elbow_angle_avg >= th.top_elbow

PushupAscendingToTop(f, th) ==
    f.elbow_angle_avg >= th.top_elbow /\
    f.shoulder_hip_ankle_angle_avg >= th.plank_line

LungeStartToDescending(f, th) ==
    f.front_knee_angle < th.stand_front_knee /\
    f.front_knee_vel < 0 - th.vel_eps

LungeDescendingToBottom_FrontOnly(f, th) ==
    f.front_knee_angle <= th.bottom_front_knee /\
    Abs(f.front_knee_vel) <= th.vel_eps

LungeDescendingToBottom(f, th) ==
    f.front_knee_angle <= th.bottom_front_knee /\
    f.back_knee_angle <= th.bottom_back_knee /\
    Abs(f.front_knee_vel) <= th.vel_eps

LungeDescendingToAscending(f, th) ==
    f.front_knee_vel > th.vel_eps /\
    (f.front_knee_angle > th.bottom_front_knee \/
     f.back_knee_angle > th.bottom_back_knee)

LungeBottomToAscending(f, th) ==
    f.front_knee_vel > th.vel_eps

LungeAscendingToStart(f, th) ==
    f.front_knee_angle >= th.stand_front_knee /\
    f.back_knee_angle >= th.stand_back_knee

(* t.condition(features, self.ctx): a rule names its predicate. *)
Holds(cond, f, th) ==
    CASE cond = "squat_start_descending"      -> SquatStartToDescending(f, th)
      [] cond = "squat_descending_bottom"     -> SquatDescendingToBottom(f, th)
      [] cond = "squat_descending_ascending"  -> SquatDescendingToAscending(f, th)
      [] cond = "squat_bottom_ascending"      -> SquatBottomToAscending(f, th)
      [] cond = "squat_ascending_start"       -> SquatAscendingToStart(f, th)
      [] cond = "pushup_top_descending"       -> PushupTopToDescending(f, th)
      [] cond = "pushup_descending_bottom"    -> PushupDescendingToBottom(f, th)
      [] cond = "pushup_descending_ascending" -> PushupDescendingToAscending(f, th)
      [] cond = "pushup_bottom_ascending"     -> PushupBottomToAscending(f, th)
      [] cond = "pushup_ascending_top"        -> PushupAscendingToTop(f, th)
      [] cond = "lunge_start_descending"      -> LungeStartToDescending(f, th)
      [] cond = "lunge_descending_bottom"     -> LungeDescendingToBottom(f, th)
      [] cond = "lunge_descending_ascending"  -> LungeDescendingToAscending(f, th)
      [] cond = "lunge_bottom_ascending"      -> LungeBottomToAscending(f, th)
      [] cond = "lunge_ascending_start"       -> LungeAscendingToStart(f, th)

(* The index of the first rule of the list whose predicate is true, 0 when
   there is none: the for ... if ...: break of update. *)
RECURSIVE FirstTrue(_, _, _, _)
FirstTrue(rules, i, f, th) ==
    IF i > Len(rules) THEN 0
    ELSE IF Holds(rules[i].condition, f, th) THEN i
    ELSE FirstTrue(rules, i + 1, f, th)

RECURSIVE LastTrue(_, _, _, _)
LastTrue(rules, i, f, th) ==
    IF i = 0 THEN 0
    ELSE IF Holds(rules[i].condition, f, th) THEN i
    ELSE LastTrue(rules, i - 1, f, th)

FsmUpdate_NoBreak(m, f) ==
    LET rules == m.transitions[m.current]
        i == LastTrue(rules, Len(rules), f, m.th)
    IN  IF i = 0 THEN m ELSE [m EXCEPT !.current = rules[i].to_state]

FsmUpdate(m, f) ==
    LET rules == m.transitions[m.current]
        i == FirstTrue(rules, 1, f, m.th)
    IN  IF i = 0 THEN m ELSE [m EXCEPT !.current = rules[i].to_state]

(* state.pretty = name.title(), fsm_base.py *)
Pretty(phase) ==
    CASE phase = "START"      -> "Start"
      [] phase = "DESCENDING" -> "Descending"
      [] phase = "BOTTOM"     -> "Bottom"
      [] phase = "ASCENDING"  -> "Ascending"
      [] phase = "TOP"        -> "Top"
      [] phase = "RESET"      -> "Reset"

(* core/fsm/squat_fsm.py, pushup_fsm.py, lunge_fsm.py: __init__ and _build *)

WithTh(m, th) == [initial |-> m.initial, current |-> m.current, ctx |-> m.ctx,
                  transitions |-> m.transitions, th |-> th]

SquatFSM_NoFallback(th) ==
    LET m0 == WithTh(FsmNew("START"), th)
        m1 == AddTransition(m0, "START", "DESCENDING", "squat_start_descending")
        m2 == AddTransition(m1, "DESCENDING", "BOTTOM", "squat_descending_bottom")
        m4 == AddTransition(m2, "BOTTOM", "ASCENDING", "squat_bottom_ascending")
    IN  AddTransition(m4, "ASCENDING", "START", "squat_ascending_start")

SquatFSM(th) ==
    LET m0 == WithTh(FsmNew("START"), th)
        m1 == AddTransition(m0, "START", "DESCENDING", "squat_start_descending")
        m2 == AddTransition(m1, "DESCENDING", "BOTTOM", "squat_descending_bottom")
        m3 == AddTransition(m2, "DESCENDING", "ASCENDING", "squat_descending_ascending")
        m4 == AddTransition(m3, "BOTTOM", "ASCENDING", "squat_bottom_ascending")
    IN  AddTransition(m4, "ASCENDING", "START", "squat_ascending_start")

PushupFSM_StartPhase(th) ==
    LET m0 == WithTh(FsmNew("START"), th)
        m1 == AddTransition(m0, "START", "DESCENDING", "pushup_top_descending")
        m2 == AddTransition(m1, "DESCENDING", "BOTTOM", "pushup_descending_bottom")
        m3 == AddTransition(m2, "DESCENDING", "ASCENDING", "pushup_descending_ascending")
        m4 == AddTransition(m3, "BOTTOM", "ASCENDING", "pushup_bottom_ascending")
    IN  AddTransition(m4, "ASCENDING", "START", "pushup_ascending_top")

PushupFSM(th) ==
    LET m0 == WithTh(FsmNew("TOP"), th)
        m1 == AddTransition(m0, "TOP", "DESCENDING", "pushup_top_descending")
        m2 == AddTransition(m1, "DESCENDING", "BOTTOM", "pushup_descending_bottom")
        m3 == AddTransition(m2, "DESCENDING", "ASCENDING", "pushup_descending_ascending")
        m4 == AddTransition(m3, "BOTTOM", "ASCENDING", "pushup_bottom_ascending")
    IN  AddTransition(m4, "ASCENDING", "TOP", "pushup_ascending_top")

LungeFSM(th) ==
    LET m0 == WithTh(FsmNew("START"), th)
        m1 == AddTransition(m0, "START", "DESCENDING", "lunge_start_descending")
        m2 == AddTransition(m1, "DESCENDING", "BOTTOM", "lunge_descending_bottom")
        m3 == AddTransition(m2, "DESCENDING", "ASCENDING", "lunge_descending_ascending")
        m4 == AddTransition(m3, "BOTTOM", "ASCENDING", "lunge_bottom_ascending")
    IN  AddTransition(m4, "ASCENDING", "START", "lunge_ascending_start")

(* core/session_runner.py: FSM_MAP[label](self.cfg[label]) *)
FSM_MAP(label, c) ==
    CASE label = "squat"  -> SquatFSM(c.squat)
      [] label = "pushup" -> PushupFSM(c.pushup)
      [] label = "lunge"  -> LungeFSM(c.lunge)

-----------------------------------------------------------------------------
(* core/form_evaluator.py *)

DepthWarnings ==
    {"Insufficient squat depth", "Push-up depth insufficient",
     "Front knee not bending enough", "Back knee not lowering enough"}

FormEvaluatorNew(exercise, th) ==
    [exercise |-> exercise, th |-> th, prev_phase |-> None,
     min_knee |-> NoAngle, min_elbow |-> NoAngle,
     min_front_knee |-> NoAngle, min_back_knee |-> NoAngle,
     lunge_rep_scored |-> FALSE]

TrackMin_KeepsLatest(m, x) == x

(* x if m is None else min(m, x) *)
TrackMin(m, x) == IF m = NoAngle THEN x ELSE Min2(m, x)

ResetMinima_NoDeferral(e, phase) ==
    IF phase \in TopPhases
    THEN [e EXCEPT !.min_knee = NoAngle, !.min_elbow = NoAngle,
                   !.min_front_knee = NoAngle, !.min_back_knee = NoAngle,
                   !.lunge_rep_scored = FALSE]
    ELSE e

(* The first block of _update_minima: the reset in a top phase, skipped on
   the lunge's first top frame after ASCENDING (the early return). *)
ResetMinima(e, phase) ==
    IF phase \in TopPhases /\
       ~(e.exercise = "lunge" /\ e.prev_phase = "ASCENDING" /\ ~e.lunge_rep_scored)
    THEN [e EXCEPT !.min_knee = NoAngle, !.min_elbow = NoAngle,
                   !.min_front_knee = NoAngle, !.min_back_knee = NoAngle,
                   !.lunge_rep_scored = FALSE]
    ELSE e

UpdateMinima_TracksBottom(e, phase, f) ==
    LET e1 == ResetMinima(e, phase)
    IN  IF phase \in {"DESCENDING", "BOTTOM", "ASCENDING"}
        THEN [e1 EXCEPT !.min_knee = TrackMin(@, f.knee_angle_avg),
                        !.min_elbow = TrackMin(@, f.elbow_angle_avg)]
        ELSE e1

UpdateMinima(e, phase, f) ==
    LET e1 == ResetMinima(e, phase)
        e2 == IF phase = "DESCENDING"
              THEN [e1 EXCEPT !.min_knee = TrackMin(@, f.knee_angle_avg),
                              !.min_elbow = TrackMin(@, f.elbow_angle_avg)]
              ELSE e1
    IN  IF e.exercise = "lunge" /\ phase \in {"DESCENDING", "BOTTOM", "ASCENDING"}
        THEN [e2 EXCEPT !.min_front_knee = TrackMin(@, f.front_knee_angle),
                        !.min_back_knee = TrackMin(@, f.back_knee_angle)]
        ELSE e2

IsTurnaroundToAscending_AnyAscending(e, phase) ==
    phase = "ASCENDING"

IsTurnaroundToAscending(e, phase) ==
    phase = "ASCENDING" /\ e.prev_phase \in {"DESCENDING", "BOTTOM"}

IsRepCompleteToTop(e, phase) ==
    phase \in {"START", "TOP"} /\ e.prev_phase = "ASCENDING"

(* score = 1.0 - 0.3 per warning, max(score, 0), in tenths *)
Scored(warnings) ==
    [score |-> IF 10 - 3 * Len(warnings) < 0 THEN 0 ELSE 10 - 3 * Len(warnings),
     warnings |-> warnings]

(* warnings, score = [], 1.0 *)
NoWarnings == [score |-> 10, warnings |-> <<>>]

Penalise_KeepsScore(acc, broken, text) ==
    IF broken THEN [acc EXCEPT !.warnings = Append(@, text)] ELSE acc

(* if <a rule is broken>: warnings.append(text); score -= 0.3 *)
Penalise(acc, broken, text) ==
    IF broken
    THEN [score |-> acc.score - 3, warnings |-> Append(acc.warnings, text)]
    ELSE acc

(* {"score": max(score, 0), "warnings": warnings} *)
Clamped(acc) == [acc EXCEPT !.score = IF @ < 0 THEN 0 ELSE @]

Squat_EveryAscending(e, phase, f) ==
    LET a1 == Penalise(NoWarnings, f.sym_knee > e.th.sym_knee_max,
                       "Knee alignment uneven")
        a2 == Penalise(a1, phase = "ASCENDING" /\ e.min_knee # NoAngle /\
                           e.min_knee > e.th.bottom_knee_max,
                       "Insufficient squat depth")
    IN  [e |-> e, out |-> Clamped(a2)]

Squat(e, phase, f) ==
    LET a1 == Penalise(NoWarnings, f.sym_knee > e.th.sym_knee_max,
                       "Knee alignment uneven")
        a2 == Penalise(a1, IsTurnaroundToAscending(e, phase) /\
                           e.min_knee # NoAngle /\
                           e.min_knee > e.th.bottom_knee_max,
                       "Insufficient squat depth")
    IN  [e |-> e, out |-> Clamped(a2)]

Pushup(e, phase, f) ==
    LET a1 == Penalise(NoWarnings,
                       f.shoulder_hip_ankle_angle_avg < e.th.plank_min,
                       "Body line not straight")
        a2 == Penalise(a1, IsTurnaroundToAscending(e, phase) /\
                           e.min_elbow # NoAngle /\
                           e.min_elbow > e.th.bottom_elbow_max,
                       "Push-up depth insufficient")
    IN  [e |-> e, out |-> Clamped(a2)]

Lunge(e, phase, f) ==
    IF ~e.lunge_rep_scored /\ IsRepCompleteToTop(e, phase)
    THEN LET a1 == Penalise(NoWarnings,
                            e.min_front_knee # NoAngle /\
                            e.min_front_knee > e.th.bottom_front_knee_max,
                            "Front knee not bending enough")
             a2 == Penalise(a1, e.min_back_knee # NoAngle /\
                                e.min_back_knee > e.th.bottom_back_knee_max,
                            "Back knee not lowering enough")
         IN  [e |-> [e EXCEPT !.lunge_rep_scored = TRUE], out |-> Clamped(a2)]
    ELSE [e |-> e, out |-> Clamped(NoWarnings)]

(* scorePhase: the evaluator after the call and the returned record *)
ScorePhase(e, phase, f) ==
    LET e1 == UpdateMinima(e, phase, f)
        r  == CASE e.exercise = "squat"  -> Squat(e1, phase, f)
                [] e.exercise = "pushup" -> Pushup(e1, phase, f)
                [] e.exercise = "lunge"  -> Lunge(e1, phase, f)
                [] OTHER                 -> [e |-> e1, out |-> NoWarnings]
    IN  [e |-> [r.e EXCEPT !.prev_phase = phase], out |-> r.out]

-----------------------------------------------------------------------------
(* utils/smoothing.py *)

(* A float is an exact fraction <<numerator, denominator>> in lowest terms
   with a positive denominator. *)
RECURSIVE GCD(_, _)
GCD(a, b) == IF b = 0 THEN a ELSE GCD(b, a % b)

Rat(n, d) ==
    LET g == GCD(Abs(n), Abs(d))
        sg == IF d < 0 THEN 0 - 1 ELSE 1
    IN  <<(sg * n) \div g, (sg * d) \div g>>

Num(x) == <<x, 1>>
RAdd(a, b) == Rat(a[1] * b[2] + b[1] * a[2], a[2] * b[2])
RSub(a, b) == Rat(a[1] * b[2] - b[1] * a[2], a[2] * b[2])
RMul(a, b) == Rat(a[1] * b[1], a[2] * b[2])
RDiv(a, b) == Rat(a[1] * b[2], a[2] * b[1])

(* EMAFilter.state = None *)
NoState == <<0, 0>>

NoFilter == [kind |-> "none"]

EMAFilterNew(alpha) == [kind |-> "ema", alpha |-> alpha, state |-> NoState]

(* EMAFilter.update: the filter after the call; the call returns its state *)
EMAFilterUpdate(flt, x) ==
    [flt EXCEPT !.state =
        IF flt.state = NoState THEN x
        ELSE RAdd(RMul(flt.alpha, x), RMul(RSub(Num(1), flt.alpha), flt.state))]

Kalman1DNew(q, r) ==
    [kind |-> "kalman", q |-> q, r |-> r, x |-> Num(0), p |-> Num(1), k |-> Num(0)]

(* Kalman1D.update: the filter after the call; the call returns its x *)
Kalman1DUpdate(flt, z) ==
    LET p1 == RAdd(flt.p, flt.q)
        k1 == RDiv(p1, RAdd(p1, flt.r))
        x1 == RAdd(flt.x, RMul(k1, RSub(z, flt.x)))
        p2 == RMul(RSub(Num(1), k1), p1)
    IN  [flt EXCEPT !.p = p2, !.k = k1, !.x = x1]

(* A key spelled as its parts between underscores. *)
Parts ==
    [knee_angle_l |-> <<"knee", "angle", "l">>,
     knee_angle_r |-> <<"knee", "angle", "r">>,
     knee_angle_avg |-> <<"knee", "angle", "avg">>,
     hip_angle_l |-> <<"hip", "angle", "l">>,
     hip_angle_r |-> <<"hip", "angle", "r">>,
     hip_angle_avg |-> <<"hip", "angle", "avg">>,
     sym_knee |-> <<"sym", "knee">>,
     elbow_angle_l |-> <<"elbow", "angle", "l">>,
     elbow_angle_r |-> <<"elbow", "angle", "r">>,
     elbow_angle_avg |-> <<"elbow", "angle", "avg">>,
     sym_elbow |-> <<"sym", "elbow">>,
     shoulder_hip_ankle_angle_avg |-> <<"shoulder", "hip", "ankle", "angle", "avg">>,
     knee_vel_avg |-> <<"knee", "vel", "avg">>,
     elbow_vel_avg |-> <<"elbow", "vel", "avg">>,
     front_knee_angle |-> <<"front", "knee", "angle">>,
     back_knee_angle |-> <<"back", "knee", "angle">>,
     front_knee_vel |-> <<"front", "knee", "vel">>,
     hip_y |-> <<"hip", "y">>,
     shoulder_y |-> <<"shoulder", "y">>,
     wrist_y |-> <<"wrist", "y">>,
     vel |-> <<"vel">>,
     vel_avg |-> <<"vel", "avg">>,
     knee_vel_l |-> <<"knee", "vel", "l">>]

(* k.endswith("_" + suffix): the suffix parts end the key after at least
   one more part (the underscore in front of the suffix). *)
EndsWith(k, suffix) ==
    LET w == Parts[k]
    IN  /\ Len(w) > Len(suffix)
        /\ SubSeq(w, Len(w) - Len(suffix) + 1, Len(w)) = suffix

IsVelocityKey_AvgOnly(k) == EndsWith(k, <<"vel", "avg">>)

IsVelocityKey(k) == EndsWith(k, <<"vel">>) \/ EndsWith(k, <<"vel", "avg">>)

SignalSmootherNew(method, alpha, q, r) ==
    [method |-> method, alpha |-> alpha, q |-> q, r |-> r,
     filters |-> [k \in DOMAIN Parts |-> NoFilter]]

(* filt.update(v) for the filter kind *)
FilterUpdate(flt, v) ==
    IF flt.kind = "ema" THEN EMAFilterUpdate(flt, v) ELSE Kalman1DUpdate(flt, v)

FilterValue(flt) == IF flt.kind = "ema" THEN flt.state ELSE flt.x

(* The filter of key k after update(signals): created on first use, then
   updated; untouched for a velocity key and for a key not in signals. *)
FilterAfter(sm, signals, k) ==
    IF k \notin DOMAIN signals \/ IsVelocityKey(k) THEN sm.filters[k]
    ELSE FilterUpdate(IF sm.filters[k] = NoFilter
                      THEN IF sm.method = "ema" THEN EMAFilterNew(sm.alpha)
                           ELSE Kalman1DNew(sm.q, sm.r)
                      ELSE sm.filters[k],
                      signals[k])

(* SignalSmoother.update: the smoother after the call and the returned
   mapping.  Each key has its own filter, so the order of the loop over the
   keys does not matter. *)
SmootherUpdate(sm, signals) ==
    LET flts == [k \in DOMAIN Parts |-> FilterAfter(sm, signals, k)]
    IN  [sm |-> [sm EXCEPT !.filters = flts],
         out |-> [k \in DOMAIN signals |->
                     IF IsVelocityKey(k) THEN signals[k]
                     ELSE FilterValue(flts[k])]]

-----------------------------------------------------------------------------
(* core/feature_extractor.py.  A landmark mapping is the set of the joint
   names it has and the angles and heights the geometry gives for them
   (utils/geometry.py: angle_3pt at the knee, hip and elbow, the
   shoulder-hip-ankle line, and the y coordinates). *)

RequiredJoints ==
    {"left_hip", "left_knee", "left_ankle", "right_hip", "right_knee",
     "right_ankle", "left_shoulder", "right_shoulder", "left_elbow",
     "left_wrist", "right_elbow", "right_wrist"}

FeatureExtractorNew(history) ==
    [history |-> history, knee_hist |-> <<>>, elbow_hist |-> <<>>,
     front_knee_hist |-> <<>>]

(* avg(x, y) = (x + y) / 2.0; the angles are even multiples of the unit *)
Avg(x, y) == (x + y) \div 2

Velocity_FromOldest(hist, current, history) ==
    LET h1 == Append(hist, current)
        h2 == IF Len(h1) > history THEN Tail(h1) ELSE h1
    IN  [hist |-> h2,
         vel |-> IF Len(h2) < 2 THEN 0 ELSE current - h2[1]]

(* _velocity: the history after the call and the returned velocity *)
Velocity(hist, current, history) ==
    LET h1 == Append(hist, current)
        h2 == IF Len(h1) > history THEN Tail(h1) ELSE h1
    IN  [hist |-> h2,
         vel |-> IF Len(h2) < 2 THEN 0 ELSE current - h2[Len(h2) - 1]]

(* compute_all: lm["..."] raises KeyError for a joint the mapping lacks,
   before any history is touched (every joint is read by line 50). *)
ComputeAll(fe, lm) ==
    IF ~(RequiredJoints \subseteq lm.joints)
    THEN [raised |-> TRUE, fe |-> fe, f |-> <<>>]
    ELSE
    LET a == lm.ang
        knee_avg == Avg(a.knee_l, a.knee_r)
        elbow_avg == Avg(a.elbow_l, a.elbow_r)
        front_knee == IF a.knee_l < a.knee_r THEN a.knee_l ELSE a.knee_r
        back_knee == IF a.knee_l < a.knee_r THEN a.knee_r ELSE a.knee_l
        kv == Velocity(fe.knee_hist, knee_avg, fe.history)
        ev == Velocity(fe.elbow_hist, elbow_avg, fe.history)
        fv == Velocity(fe.front_knee_hist, front_knee, fe.history)
    IN  [raised |-> FALSE,
         fe |-> [fe EXCEPT !.knee_hist = kv.hist, !.elbow_hist = ev.hist,
                           !.front_knee_hist = fv.hist],
         f |-> [knee_angle_l |-> a.knee_l, knee_angle_r |-> a.knee_r,
                knee_angle_avg |-> knee_avg,
                hip_angle_l |-> a.hip_l, hip_angle_r |-> a.hip_r,
                hip_angle_avg |-> Avg(a.hip_l, a.hip_r),
                sym_knee |-> Abs(a.knee_l - a.knee_r),
                elbow_angle_l |-> a.elbow_l, elbow_angle_r |-> a.elbow_r,
                elbow_angle_avg |-> elbow_avg,
                sym_elbow |-> Abs(a.elbow_l - a.elbow_r),
                shoulder_hip_ankle_angle_avg |-> Avg(a.line_l, a.line_r),
                knee_vel_avg |-> kv.vel,
                elbow_vel_avg |-> ev.vel,
                front_knee_angle |-> front_knee,
                back_knee_angle |-> back_knee,
                front_knee_vel |-> fv.vel,
                hip_y |-> Avg(a.hip_y_l, a.hip_y_r),
                shoulder_y |-> Avg(a.shoulder_y_l, a.shoulder_y_r),
                wrist_y |-> Avg(a.wrist_y_l, a.wrist_y_r)]]

-----------------------------------------------------------------------------
(* core/exercise_classifier.py.  Floats are exact fractions. *)

RLe(a, b) == a[1] * b[2] <= b[1] * a[2]

RMax(a, b) == IF RLe(b, a) THEN a ELSE b

RMin(a, b) == IF RLe(a, b) THEN a ELSE b

(* f.get(k, d) *)
Get(f, k, d) == IF k \in DOMAIN f THEN f[k] ELSE d

(* what a division by 0.0 leaves in place of a number *)
ZeroDivision == <<1, 0>>

Ramp_NoGuard(x, lo, hi) ==
    IF hi = lo THEN ZeroDivision
    ELSE RMax(Num(0), RMin(Num(1), RDiv(RSub(x, lo), RSub(hi, lo))))

(* _ramp *)
Ramp(x, lo, hi) ==
    IF RLe(hi, lo) THEN Num(0)
    ELSE RMax(Num(0), RMin(Num(1), RDiv(RSub(x, lo), RSub(hi, lo))))

ExerciseClassifierNew(th) == [th |-> th, current_label |-> None]

ArgMax_Last(scores) == "lunge"

ArgMax_LastOfTies(scores) ==
    IF RLe(scores.pushup, scores.lunge) /\ RLe(scores.squat, scores.lunge)
    THEN "lunge"
    ELSE IF RLe(scores.pushup, scores.squat) THEN "squat"
    ELSE "pushup"

(* max(scores, key=scores.get): the first key, in the order pushup, squat,
   lunge in which the dict was written, whose score no other exceeds *)
ArgMax(scores) ==
    IF RLe(scores.squat, scores.pushup) /\ RLe(scores.lunge, scores.pushup)
    THEN "pushup"
    ELSE IF RLe(scores.lunge, scores.squat) THEN "squat"
    ELSE "lunge"

(* predict: the classifier after the call and the ExercisePrediction *)
Predict(c, f) ==
    LET th == c.th
        trunk == Get(f, "shoulder_hip_ankle_angle_avg", Num(180))
        knee_avg == Get(f, "knee_angle_avg", Num(180))
        elbow_avg == Get(f, "elbow_angle_avg", Num(180))
        sym_knee == Get(f, "sym_knee", Num(0))
        hip_y == Get(f, "hip_y", Rat(1, 2))
        shoulder_y == Get(f, "shoulder_y", Rat(2, 5))
        wrist_y == Get(f, "wrist_y", Rat(3, 5))
        pushup_score ==
            RDiv(RAdd(RAdd(Ramp(trunk, th.pushup_trunk_min, Num(180)),
                           Ramp(RSub(wrist_y, shoulder_y),
                                th.pushup_wrist_below, Rat(3, 5))),
                      Ramp(RSub(th.pushup_top_elbow, elbow_avg),
                           Num(0), th.pushup_elbow_flex_range)),
                 Num(3))
        squat_score ==
            RDiv(RAdd(RAdd(Ramp(RSub(th.squat_trunk_max, trunk),
                                Num(0), th.squat_trunk_range),
                           Ramp(RSub(th.squat_stand_knee, knee_avg),
                                Num(0), th.squat_knee_flex_range)),
                      Ramp(RSub(th.squat_sym_knee_max, sym_knee),
                           Num(0), th.squat_sym_knee_max)),
                 Num(3))
        lunge_score == Ramp(sym_knee, th.lunge_asym_min, th.lunge_asym_max)
        scores == [pushup |-> pushup_score, squat |-> squat_score,
                   lunge |-> lunge_score]
        label == ArgMax(scores)
    IN  [c |-> [c EXCEPT !.current_label = label],
         out |-> [label |-> label,
                  confidence |-> scores[label],
                  debug |-> [pushup_score |-> pushup_score,
                             squat_score |-> squat_score,
                             lunge_score |-> lunge_score,
                             trunk |-> trunk,
                             knee_avg |-> knee_avg,
                             elbow_avg |-> elbow_avg,
                             sym_knee |-> sym_knee]]]

-----------------------------------------------------------------------------
(* core/feedback_engine.py: FeedbackEngine() with praise_threshold 0.80 and
   no praise_phases.  ui_text is the kind of line and the text it shows. *)

PraiseLines ==
    <<"Good form!", "Nice rep!", "Looking strong!", "Great technique!",
      "Excellent movement!">>

(* FeedbackEngine(praise_threshold, praise_phases): the score is in tenths;
   praise_phases is <<>> for None and <<S>> for a list with the members S. *)
FeedbackEngineNew(praise_threshold, praise_phases) ==
    [praise_threshold |-> praise_threshold, praise_phases |-> praise_phases,
     praise_lines |-> PraiseLines]

PraiseText_AnyPhase(eng, pretty, warnings, score, rep_count) ==
    IF warnings = <<>> /\ score >= eng.praise_threshold
    THEN eng.praise_lines[(rep_count % Len(eng.praise_lines)) + 1]
    ELSE ""

(* generate, lines 44-58 *)
PraiseText(eng, pretty, warnings, score, rep_count) ==
    LET phase_ok == IF eng.praise_phases # <<>>
                    THEN pretty \in eng.praise_phases[1] ELSE TRUE
    IN  IF warnings = <<>> /\ score >= eng.praise_threshold /\ phase_ok
        THEN eng.praise_lines[(rep_count % Len(eng.praise_lines)) + 1]
        ELSE ""

SpeakText_PraiseFirst(warnings, praise_text) ==
    IF praise_text # "" THEN praise_text
    ELSE IF warnings # <<>> THEN warnings[Len(warnings)]
    ELSE ""

(* generate, lines 60-67 *)
SpeakText(warnings, praise_text) ==
    IF warnings # <<>> THEN warnings[1]
    ELSE IF praise_text # "" THEN praise_text
    ELSE ""

(* generate, lines 69-78: the kind of line, what it shows and the score *)
UiText(warnings, praise_text, score) ==
    IF warnings # <<>> THEN <<"Fix", warnings, score>>
    ELSE IF praise_text # "" THEN <<praise_text, score>>
    ELSE <<"Score", score>>

(* generate of an engine eng in the phase shown as pretty *)
GenerateWith(eng, pretty, ps, rep_count) ==
    LET warnings == ps.warnings
        score == ps.score
        praise_text == PraiseText(eng, pretty, warnings, score, rep_count)
    IN  [ui_text |-> UiText(warnings, praise_text, score),
         speak_text |-> SpeakText(warnings, praise_text),
         warnings |-> warnings, score |-> score]

(* self.feedback.generate(state, phase_score, features, rep_count) of the
   session's FeedbackEngine() *)
Generate(state, ps, f, rep_count) ==
    GenerateWith(FeedbackEngineNew(8, <<>>), Pretty(state), ps, rep_count)

-----------------------------------------------------------------------------
(* core/audio_feedback.py.  Times are tenths of a second.  The shutdown
   signal None is the string "None"; _q is the sequence of its items. *)

QueueMaxsize == 1

(* queue.Queue.put_nowait: ok is FALSE for queue.Full *)
QueuePutNowait_Unbounded(q, x) == [ok |-> TRUE, q |-> Append(q, x)]

QueuePutNowait(q, x) ==
    IF Len(q) < QueueMaxsize THEN [ok |-> TRUE, q |-> Append(q, x)]
    ELSE [ok |-> FALSE, q |-> q]

(* queue.Queue.get_nowait: ok is FALSE for queue.Empty *)
QueueGetNowait(q) ==
    IF q # <<>> THEN [ok |-> TRUE, item |-> Head(q), q |-> Tail(q)]
    ELSE [ok |-> FALSE, item |-> None, q |-> q]

(* __init__: with pyttsx3 importable the queue is created and the worker
   thread started; without it the object is disabled and has neither. *)
AudioFeedbackNew(enabled, change_gap_s) ==
    [enabled |-> enabled, change_gap_s |-> change_gap_s,
     last_spoken_time |-> 0, last_spoken_text |-> None,
     has_q |-> enabled, q |-> <<>>, engine |-> None]

(* speak, lines 75-86: the tests that make speak return at once *)
SpeakIgnored(a, text, now) ==
    \/ ~a.enabled \/ text = ""
    \/ text = a.last_spoken_text
    \/ now - a.last_spoken_time < a.change_gap_s

(* speak, lines 89-90 *)
SpeakAccepted(a, text, now) ==
    [a EXCEPT !.last_spoken_text = text, !.last_spoken_time = now]

(* The first put_nowait of speak: where the call goes next. *)
SpeakPut(q, text) ==
    LET r == QueuePutNowait(q, text)
    IN  IF r.ok THEN [q |-> r.q, pc |-> "idle", put |-> TRUE]
        ELSE [q |-> q, pc |-> "speak_drop", put |-> FALSE]

(* get_nowait under "except queue.Empty: pass" *)
DropPending(q) == QueueGetNowait(q).q

(* The second put_nowait, under "except Exception: pass" *)
PutAgain(q, x) ==
    LET r == QueuePutNowait(q, x)
    IN  [q |-> r.q, put |-> r.ok]

(* A whole speak call with no step of the worker between its steps. *)
Speak(a, text, now) ==
    IF SpeakIgnored(a, text, now) THEN a
    ELSE LET a1 == SpeakAccepted(a, text, now)
             r == SpeakPut(a1.q, text)
         IN  IF ~a1.has_q THEN a1
             ELSE IF r.put THEN [a1 EXCEPT !.q = r.q]
             ELSE [a1 EXCEPT !.q = PutAgain(DropPending(a1.q), text).q]

ClosePut_GivesUpWhenFull(q) ==
    LET r == QueuePutNowait(q, None)
    IN  [q |-> r.q, pc |-> "close_join", put |-> r.ok]

(* The first put_nowait of close *)
ClosePut(q) ==
    LET r == QueuePutNowait(q, None)
    IN  IF r.ok THEN [q |-> r.q, pc |-> "close_join", put |-> TRUE]
        ELSE [q |-> q, pc |-> "close_drop", put |-> FALSE]

WorkerAfterSpeech_Escapes(w, delivered) ==
    IF delivered THEN [w EXCEPT !.pc = "get", !.spoken = @ + 1]
    ELSE [w EXCEPT !.pc = "crashed", !.failures = @ + 1]

(* The worker after stop/say/runAndWait: an exception is passed over and
   the loop goes back to q.get(). *)
WorkerAfterSpeech(w, delivered) ==
    IF delivered THEN [w EXCEPT !.pc = "get", !.spoken = @ + 1]
    ELSE [w EXCEPT !.pc = "get", !.failures = @ + 1]

-----------------------------------------------------------------------------
(* core/session_runner.py *)

(* self.fsm = None, self.form = None before the first exercise is chosen *)
NoFsm == WithTh(FsmNew(None), <<>>)

NoForm == FormEvaluatorNew(None, <<>>)

NoLast == [kind |-> "none", swapped |-> FALSE, phase_in |-> None,
           prev_in |-> None, rep_before |-> 0,
           min_front_in |-> NoAngle, min_back_in |-> NoAngle,
           min_knee_in |-> NoAngle, min_elbow_in |-> NoAngle,
           scored_in |-> FALSE, ex_before |-> None, count_before |-> 0]

NewRep == [n_depth |-> 0, min_desc |-> NoAngle, bottom_seen |-> FALSE,
           min_front |-> NoAngle, min_back |-> NoAngle,
           completed |-> FALSE]

SwapExercise_KeepsCounter(label, c, r) ==
    [current_ex |-> label,
     fsm |-> FSM_MAP(label, c),
     form |-> FormEvaluatorNew(label, c.form[label]),
     reps |-> r]

(* _swap_exercise: FSM, evaluator and counter are rebuilt together *)
SwapExercise(label, c, r) ==
    [current_ex |-> label,
     fsm |-> FSM_MAP(label, c),
     form |-> FormEvaluatorNew(label, c.form[label]),
     reps |-> RepCounterReset(r)]

(* The angle the depth check of an exercise is about. *)
TrackedAngle(ex, f) ==
    CASE ex = "squat"  -> f.knee_angle_avg
      [] ex = "pushup" -> f.elbow_angle_avg
      [] ex = "lunge"  -> f.front_knee_angle

HasDepthWarning(ws) == \E i \in 1..Len(ws) : ws[i] \in DepthWarnings

(* rep_frames after one more frame.  A rep's frames are those after the
   frame that completed the previous rep (or after the exercise switch), up
   to and including the frame on which rep_count grows.  n_depth counts the
   frames carrying a depth warning and stops counting at 2; min_desc is the
   least tracked angle over the frames in DESCENDING; min_front and min_back
   are the least knee angles over the frames in DESCENDING, BOTTOM or
   ASCENDING. *)
RepFramesNext(rf, swapped, ex, phase, f, ws, grew) ==
    LET rf0 == IF swapped \/ rf.completed THEN NewRep ELSE rf
    IN  [n_depth |-> IF HasDepthWarning(ws) THEN Min2(rf0.n_depth + 1, 2)
                     ELSE rf0.n_depth,
         min_desc |-> IF phase = "DESCENDING"
                      THEN TrackMin(rf0.min_desc, TrackedAngle(ex, f))
                      ELSE rf0.min_desc,
         bottom_seen |-> rf0.bottom_seen \/ phase = "BOTTOM",
         min_front |-> IF phase \in {"DESCENDING", "BOTTOM", "ASCENDING"}
                       THEN TrackMin(rf0.min_front, f.front_knee_angle)
                       ELSE rf0.min_front,
         min_back |-> IF phase \in {"DESCENDING", "BOTTOM", "ASCENDING"}
                      THEN TrackMin(rf0.min_back, f.back_knee_angle)
                      ELSE rf0.min_back,
         completed |-> grew]

(* One detected frame of run()'s loop, from the exercise selection to the
   form score: label is pred.label (the forced label in forced mode).  sw
   is the session after the optional _swap_exercise, m the FSM after
   update, r the counter after update, sc the evaluator and its result
   after scorePhase; each is bound once, as a one-element choice. *)
FrameCore(label, f) ==
    /\ forced_exercise # None => label = forced_exercise
    /\ LET swapped == current_ex # label
       IN  \E sw \in {IF swapped THEN SwapExercise(label, cfg, reps)
                      ELSE [current_ex |-> current_ex, fsm |-> fsm,
                            form |-> form, reps |-> reps]} :
           \E m \in {FsmUpdate(sw.fsm, f)} :
           \E r \in {RepCounterUpdate(sw.reps, m.current)} :
           \E sc \in {ScorePhase(sw.form, m.current, f)} :
               /\ current_ex' = sw.current_ex
               /\ fsm' = m
               /\ reps' = r
               /\ form' = sc.e
               /\ phase_score' = sc.out
               /\ feat' = f
               /\ last' = [kind |-> "frame", swapped |-> swapped,
                           phase_in |-> sw.fsm.current,
                           prev_in |-> sw.form.prev_phase,
                           rep_before |-> sw.reps.rep_count,
                           min_front_in |-> sw.form.min_front_knee,
                           min_back_in |-> sw.form.min_back_knee,
                           min_knee_in |-> sw.form.min_knee,
                           min_elbow_in |-> sw.form.min_elbow,
                           scored_in |-> sw.form.lunge_rep_scored,
                           ex_before |-> current_ex,
                           count_before |-> reps.rep_count]
               /\ rep_frames' = RepFramesNext(rep_frames, swapped, label,
                                              m.current, f, sc.out.warnings,
                                              r.rep_count > sw.reps.rep_count)

(* The frames of a session as the pipeline core sees them. *)
SessionFrame(label, f) ==
    /\ reps.rep_count < MaxReps
    /\ FrameCore(label, f)
    /\ UNCHANGED <<cfg, forced_exercise, fed, det>>
    /\ UNCHANGED restVars

(* The angles of a run() are whole multiples of 1/Unit degree: the landmark
   angles are whole degrees, avg halves them and each EMA update with
   alpha = 0.25 divides by four, so every value the loop computes within
   MaxRun frames is a whole number of units (and exact as a float). *)
RECURSIVE Pow4(_)
Pow4(n) == IF n = 0 THEN 1 ELSE 4 * Pow4(n - 1)

Unit == 2 * Pow4(MaxRun)

Deg(d) == d * Unit

(* cfg with its angles in units *)
ScaleCfg(c) ==
    [x \in DOMAIN c |->
        IF x = "form"
        THEN [e \in DOMAIN c[x] |-> [k \in DOMAIN c[x][e] |-> Deg(c[x][e][k])]]
        ELSE [k \in DOMAIN c[x] |-> Deg(c[x][k])]]

(* round(a / b) of Python 3 for a >= 0, b > 0: halves go to the even side *)
RoundDiv(a, b) ==
    LET q == a \div b
        r == a % b
    IN  IF 2 * r > b THEN q + 1
        ELSE IF 2 * r = b THEN q + (q % 2)
        ELSE q

(* round(x, 2) of an angle, in hundredths of a degree *)
Round2(x) == RoundDiv(x * 100, Unit)

(* raw_features as the smoother takes them, and its output as the FSM and
   the evaluator read it *)
ToSignals(f) == [k \in DOMAIN f |-> Num(f[k])]

Whole(x) == x[1] \div x[2]

FromSignals(out) == [k \in DOMAIN out |-> Whole(out[k])]

(* `if landmarks:` is false for None and for an empty mapping; both are the
   mapping without joints. *)
Truthy_Always(lm) == TRUE

Truthy(lm) == lm.joints # {}

(* SessionRunner.__init__, lines 80-101, and the two CSVLoggers, whose file
   is the sequence of the rows logged.  Times are tenths of a second, scores
   tenths, average scores and confidences thousandths; a Counter and a dict
   of counts are bags.  The classifier's thresholds are not followed in a
   session (the label it predicts is an input), only its current_label; hud
   holds the label, confidence and diagnostics of the last drawHUD. *)
RunnerNew ==
    [frame_idx |-> 0, rep_id |-> 0, rep_buffer |-> <<>>,
     session_start |-> 100,
     score_sum |-> 0, score_n |-> 0, warning_counter |-> EmptyBag,
     summary |-> [exercise |-> None, rep_count |-> 0,
                  phase_counts |-> EmptyBag, warnings_count |-> 0,
                  warnings_examples |-> <<>>,
                  warnings_breakdown |-> EmptyBag, avg_score |-> 0],
     frame_logger |-> [open |-> TRUE, rows |-> <<>>],
     rep_logger |-> [open |-> TRUE, rows |-> <<>>],
     classifier |-> ExerciseClassifierNew(<<>>),
     hud |-> <<>>]

(* _reset_trackers *)
ResetTrackers(rn) ==
    [rn EXCEPT !.score_sum = 0, !.score_n = 0, !.warning_counter = EmptyBag]

(* The part of _swap_exercise that is about the runner's own counters. *)
RunnerSwap(rn, label) ==
    [ResetTrackers([rn EXCEPT !.rep_buffer = <<>>, !.rep_id = 0])
        EXCEPT !.summary.exercise = label]

RECURSIVE CountAll(_, _)
CountAll(c, ws) ==
    IF ws = <<>> THEN c
    ELSE CountAll(c (+) SetToBag({Head(ws)}), Tail(ws))

(* Lines 225-253: the running statistics, the frame row (";".join(warnings)
   is the sequence of its pieces: no warning text holds a semicolon), the
   frame log and the rep buffer. *)
LogFrame(rn, pred, phase, f, fb, rep_count, now) ==
    LET row == [time_s |-> now - rn.session_start,
                frame_idx |-> rn.frame_idx,
                exercise |-> pred.label,
                conf |-> pred.confidence,
                phase |-> Pretty(phase),
                knee_avg |-> Round2(f.knee_angle_avg),
                elbow_avg |-> Round2(f.elbow_angle_avg),
                rep_count |-> rep_count,
                score |-> fb.score,
                warnings |-> fb.warnings]
    IN  [rn EXCEPT !.score_sum = @ + fb.score,
                   !.score_n = @ + 1,
                   !.warning_counter = CountAll(@, fb.warnings),
                   !.frame_logger.rows = Append(@, row),
                   !.rep_buffer = Append(@, row),
                   !.frame_idx = @ + 1]

(* Lines 225-231: the running score and warning statistics of a frame *)
TrackScore(rn, fb) ==
    [rn EXCEPT !.score_sum = @ + fb.score,
               !.score_n = @ + 1,
               !.warning_counter = CountAll(@, fb.warnings)]

RECURSIVE AllWarn(_)
AllWarn(buf) ==
    IF buf = <<>> THEN <<>> ELSE Head(buf).warnings \o AllWarn(Tail(buf))

Occurrences(ws, w) == Cardinality({i \in 1..Len(ws) : ws[i] = w})

(* max(set(all_warn), key=all_warn.count): the first most frequent text in
   the iteration order of a set of strings, which differs from process to
   process; any most frequent text can be returned. *)
TopWarnings(ws) ==
    IF ws = <<>> THEN {""}
    ELSE {ws[i] : i \in {j \in 1..Len(ws) :
                          \A k \in 1..Len(ws) :
                              Occurrences(ws, ws[k]) <= Occurrences(ws, ws[j])}}

(* min of the positive values of a column, 0 when there is none *)
MinPositive(buf, col) ==
    LET vs == {buf[i][col] : i \in {j \in 1..Len(buf) : buf[j][col] > 0}}
    IN  IF vs = {} THEN 0 ELSE CHOOSE v \in vs : \A u \in vs : v <= u

RECURSIVE SumScores(_)
SumScores(buf) ==
    IF buf = <<>> THEN 0 ELSE Head(buf).score + SumScores(Tail(buf))

FlushRep_KeepsBuffer(rn, ex, rep_count, top) ==
    IF rn.rep_buffer = <<>> THEN rn
    ELSE LET buf == rn.rep_buffer
             rep_row == [rep_id |-> rep_count,
                         exercise |-> ex,
                         start_time |-> buf[1].time_s,
                         end_time |-> buf[Len(buf)].time_s,
                         duration_s |-> buf[Len(buf)].time_s - buf[1].time_s,
                         min_knee |-> MinPositive(buf, "knee_avg"),
                         min_elbow |-> MinPositive(buf, "elbow_avg"),
                         avg_score |-> RoundDiv(SumScores(buf) * 100, Len(buf)),
                         warnings_count |-> Len(AllWarn(buf)),
                         warnings_top |-> top]
         IN  [rn EXCEPT !.rep_id = rep_count,
                        !.rep_logger.rows = Append(@, rep_row)]

(* _flush_rep, with top the text max() returns *)
FlushRep(rn, ex, rep_count, top) ==
    IF rn.rep_buffer = <<>> THEN rn
    ELSE LET buf == rn.rep_buffer
             rep_row == [rep_id |-> rep_count,
                         exercise |-> ex,
                         start_time |-> buf[1].time_s,
                         end_time |-> buf[Len(buf)].time_s,
                         duration_s |-> buf[Len(buf)].time_s - buf[1].time_s,
                         min_knee |-> MinPositive(buf, "knee_avg"),
                         min_elbow |-> MinPositive(buf, "elbow_avg"),
                         avg_score |-> RoundDiv(SumScores(buf) * 100, Len(buf)),
                         warnings_count |-> Len(AllWarn(buf)),
                         warnings_top |-> top]
         IN  [rn EXCEPT !.rep_id = rep_count,
                        !.rep_logger.rows = Append(@, rep_row),
                        !.rep_buffer = <<>>]

(* Lines 259-275: the session summary after a processed frame *)
Summarise(rn, phase, fb, rep_count) ==
    [rn EXCEPT
        !.summary.rep_count = rep_count,
        !.summary.phase_counts = @ (+) SetToBag({Pretty(phase)}),
        !.summary.warnings_count = @ + Len(fb.warnings),
        !.summary.warnings_examples =
            IF fb.warnings # <<>> /\ Len(@) < 10 THEN @ \o fb.warnings ELSE @,
        !.summary.avg_score =
            RoundDiv(rn.score_sum * 100,
                     IF rn.score_n > 1 THEN rn.score_n ELSE 1),
        !.summary.warnings_breakdown = rn.warning_counter]

(* set_change_gap *)
SetChangeGap(a, seconds) == [a EXCEPT !.change_gap_s = seconds]

(* run() has not been called.  pc is where run() stands: "new" before the
   call, "loop" at the head of the loop, "finalize" after it, "done" after
   the return, "raised" when an exception has left run().  writer is "none",
   "open" or "released"; written and displayed count the frames given to
   the writer and to the window; reads counts the calls of readFrame and
   last_read tells what the last one brought; summary_file and returned
   hold the summary once it is written and returned. *)
NoRun ==
    [pc |-> "new", mode |-> "webcam", output_path |-> FALSE,
     save_summary_path |-> FALSE, show_window |-> FALSE,
     stream |-> [started |-> FALSE, stopped |-> FALSE],
     writer |-> "none", written |-> 0, displayed |-> 0,
     reads |-> 0, last_read |-> None, eos |-> FALSE, quit |-> FALSE,
     summary_file |-> <<>>, returned |-> <<>>]

(* Lines 290-299: the frame goes to the writer and to the window, and the
   loop ends when the window reports the quit key. *)
AfterFrame(r, quit) ==
    [r EXCEPT !.written = IF r.writer = "open" THEN @ + 1 ELSE @,
              !.displayed = IF r.show_window THEN @ + 1 ELSE @,
              !.quit = r.show_window /\ quit,
              !.pc = IF r.show_window /\ quit THEN "finalize" ELSE "loop"]

Finalize_NoSummaryFile(rn, r) ==
    [runner |-> [rn EXCEPT !.frame_logger.open = FALSE,
                           !.rep_logger.open = FALSE],
     run |-> [r EXCEPT !.pc = "done",
                       !.stream.stopped = TRUE,
                       !.writer = IF @ = "open" THEN "released" ELSE @,
                       !.returned = <<rn.summary>>]]

(* Lines 301-315: cleanup and finalization *)
Finalize(rn, r) ==
    [runner |-> [rn EXCEPT !.frame_logger.open = FALSE,
                           !.rep_logger.open = FALSE],
     run |-> [r EXCEPT !.pc = "done",
                       !.stream.stopped = TRUE,
                       !.writer = IF @ = "open" THEN "released" ELSE @,
                       !.summary_file = IF r.save_summary_path
                                        THEN <<rn.summary>> ELSE @,
                       !.returned = <<rn.summary>>]]

(* A threshold mapping with one key left out, and th["k"] raising KeyError
   for a key the mapping does not have. *)
Without(rec, k) == [x \in DOMAIN rec \ {k} |-> rec[x]]

Has(th, k) == k \in DOMAIN th

(* Whether evaluating a predicate raises KeyError: the lookups are made
   from left to right, and `and` / `or` skip their right operand. *)
Raises(cond, f, th) ==
    CASE cond = "squat_start_descending" ->
             \/ ~Has(th, "stand_knee")
             \/ f.knee_angle_avg < th.stand_knee /\ ~Has(th, "vel_eps")
      [] cond = "squat_descending_bottom" ->
             \/ ~Has(th, "bottom_knee")
             \/ f.knee_angle_avg <= th.bottom_knee /\ ~Has(th, "vel_eps")
      [] cond = "squat_descending_ascending" ->
             \/ ~Has(th, "vel_eps")
             \/ f.knee_vel_avg > th.vel_eps /\ ~Has(th, "bottom_knee")
      [] cond = "squat_bottom_ascending" -> ~Has(th, "vel_eps")
      [] cond = "squat_ascending_start" ->
             \/ ~Has(th, "stand_knee")
             \/ f.knee_angle_avg >= th.stand_knee /\ ~Has(th, "stand_hip")
      [] cond = "pushup_top_descending" ->
             \/ ~Has(th, "top_elbow")
             \/ f.elbow_angle_avg < th.top_elbow /\ ~Has(th, "vel_eps")
      [] cond = "pushup_descending_bottom" ->
             \/ ~Has(th, "bottom_elbow")
             \/ f.elbow_angle_avg <= th.bottom_elbow /\ ~Has(th, "vel_eps")
      [] cond = "pushup_descending_ascending" ->
             \/ ~Has(th, "vel_eps")
             \/ f.elbow_vel_avg > th.vel_eps /\ ~Has(th, "bottom_elbow")
      [] cond = "pushup_bottom_ascending" -> ~Has(th, "vel_eps")
      [] cond = "pushup_ascending_top" ->
             \/ ~Has(th, "top_elbow")
             \/ f.elbow_angle_avg >= th.top_elbow /\ ~Has(th, "plank_line")
      [] cond = "lunge_start_descending" ->
             \/ ~Has(th, "stand_front_knee")
             \/ f.front_knee_angle < th.stand_front_knee /\ ~Has(th, "vel_eps")
      [] cond = "lunge_descending_bottom" ->
             \/ ~Has(th, "bottom_front_knee")
             \/ /\ f.front_knee_angle <= th.bottom_front_knee
                /\ \/ ~Has(th, "bottom_back_knee")
                   \/ f.back_knee_angle <= th.bottom_back_knee /\ ~Has(th, "vel_eps")
      [] cond = "lunge_descending_ascending" ->
             \/ ~Has(th, "vel_eps")
             \/ /\ f.front_knee_vel > th.vel_eps
                /\ \/ ~Has(th, "bottom_front_knee")
                   \/ /\ ~(f.front_knee_angle > th.bottom_front_knee)
                      /\ ~Has(th, "bottom_back_knee")
      [] cond = "lunge_bottom_ascending" -> ~Has(th, "vel_eps")
      [] cond = "lunge_ascending_start" ->
             \/ ~Has(th, "stand_front_knee")
             \/ /\ f.front_knee_angle >= th.stand_front_knee
                /\ ~Has(th, "stand_back_knee")

(* update: whether a predicate raises before a rule fires *)
RECURSIVE FirstRaises(_, _, _, _)
FirstRaises(rules, i, f, th) ==
    IF i > Len(rules) THEN FALSE
    ELSE IF Raises(rules[i].condition, f, th) THEN TRUE
    ELSE IF Holds(rules[i].condition, f, th) THEN FALSE
    ELSE FirstRaises(rules, i + 1, f, th)

FsmUpdateRaises(m, f) == FirstRaises(m.transitions[m.current], 1, f, m.th)

(* _squat, _pushup, _lunge: whether a threshold lookup raises, for the
   evaluator e as _update_minima has left it *)
ScoreRaises(e, phase, f) ==
    CASE e.exercise = "squat" ->
             \/ ~Has(e.th, "sym_knee_max")
             \/ /\ IsTurnaroundToAscending(e, phase)
                /\ e.min_knee # NoAngle
                /\ ~Has(e.th, "bottom_knee_max")
      [] e.exercise = "pushup" ->
             \/ ~Has(e.th, "plank_min")
             \/ /\ IsTurnaroundToAscending(e, phase)
                /\ e.min_elbow # NoAngle
                /\ ~Has(e.th, "bottom_elbow_max")
      [] e.exercise = "lunge" ->
             /\ ~e.lunge_rep_scored
             /\ IsRepCompleteToTop(e, phase)
             /\ \/ e.min_front_knee # NoAngle /\ ~Has(e.th, "bottom_front_knee_max")
                \/ e.min_back_knee # NoAngle /\ ~Has(e.th, "bottom_back_knee_max")
      [] OTHER -> FALSE

(* _swap_exercise on a configuration that may lack a section: the
   assignments are made in the order of lines 115-121, and self.cfg[label]
   or self.cfg["form"][label] raises KeyError in the middle of them.  at is
   "none" when the switch goes through. *)
SwapAttempt(label, c, ex, m, e, r) ==
    IF ~Has(c, label)
    THEN [at |-> "fsm", current_ex |-> label, fsm |-> m, form |-> e, reps |-> r]
    ELSE IF ~Has(c, "form") \/ ~Has(c.form, label)
    THEN [at |-> "form", current_ex |-> label, fsm |-> FSM_MAP(label, c),
          form |-> e, reps |-> r]
    ELSE [at |-> "none", current_ex |-> label, fsm |-> FSM_MAP(label, c),
          form |-> FormEvaluatorNew(label, c.form[label]),
          reps |-> RepCounterReset(r)]

NoDet == [run |-> 0, inputs |-> <<>>, phases1 |-> <<>>, phases2 |-> <<>>]

NoSmoothed == [calls |-> 0, signals |-> <<>>, out |-> <<>>]

(* no function has been called *)
NoCall == [fn |-> None, args |-> <<>>, out |-> <<>>]

(* The calling thread is outside any call; the worker, started by
   AudioFeedback.__init__, has not yet run; the clock shows a time later
   than one change gap.  history: calls counts the calls made, taken lists
   the items the worker got, dropped the items a call removed from a full
   channel, ret describes the call that returned last. *)
NoThreads ==
    [caller |-> [pc |-> "idle", text |-> None, put |-> FALSE, taken_before |-> 0],
     worker |-> [pc |-> "init", text |-> None, spoken |-> 0, failures |-> 0],
     now |-> 100, calls |-> 0, taken |-> <<>>, dropped |-> <<>>,
     ret |-> [call |-> None, accepted |-> FALSE, text |-> None,
              found_full |-> FALSE, joined |-> None]]

(* The objects of the session outside the pipeline core, as __init__ leaves
   them: SignalSmoother(method="ema", alpha=0.25), with the defaults q=0.01
   and r=1.0. *)
RestInit ==
    /\ smoother = SignalSmootherNew("ema", Rat(1, 4), Rat(1, 100), Num(1))
    /\ smoothed = NoSmoothed
    /\ called = NoCall
    /\ audio = AudioFeedbackNew(TRUE, 8)
    /\ thr = NoThreads
    /\ feats = FeatureExtractorNew(5)
    /\ runner = RunnerNew
    /\ run = NoRun

Init ==
    /\ cfg \in Configs
    /\ forced_exercise \in {None} \cup Exercises
    /\ current_ex = None
    /\ fsm = NoFsm
    /\ form = NoForm
    /\ reps = RepCounterNew
    /\ feat = Standing
    /\ phase_score = Scored(<<>>)
    /\ last = NoLast
    /\ rep_frames = NewRep
    /\ fed = <<>>
    /\ det = NoDet
    /\ RestInit

Next == \E label \in Exercises : \E f \in FramesOf(label) : SessionFrame(label, f)

Spec == Init /\ [][Next]_vars

-----------------------------------------------------------------------------
(* A bare RepCounter fed an arbitrary phase sequence (reset() starts a new
   sequence). *)

RepFeed(p) ==
    /\ Len(fed) < MaxFed
    /\ reps' = RepCounterUpdate(reps, p)
    /\ fed' = Append(fed, p)
    /\ last' = [NoLast EXCEPT !.kind = "rep_update",
                              !.rep_before = reps.rep_count]
    /\ UNCHANGED <<cfg, forced_exercise, current_ex, fsm, form, feat,
                   phase_score, rep_frames, det>>
    /\ UNCHANGED restVars

RepReset ==
    /\ fed # <<>>
    /\ reps' = RepCounterReset(reps)
    /\ fed' = <<>>
    /\ last' = [NoLast EXCEPT !.kind = "rep_reset"]
    /\ UNCHANGED <<cfg, forced_exercise, current_ex, fsm, form, feat,
                   phase_score, rep_frames, det>>
    /\ UNCHANGED restVars

InitBare ==
    /\ cfg = Thresholds
    /\ forced_exercise = None
    /\ current_ex = None
    /\ fsm = NoFsm
    /\ form = NoForm
    /\ reps = RepCounterNew
    /\ feat = Standing
    /\ phase_score = Scored(<<>>)
    /\ last = NoLast
    /\ rep_frames = NewRep
    /\ fed = <<>>
    /\ det = NoDet
    /\ RestInit

NextRep == (\E p \in PhaseName : RepFeed(p)) \/ RepReset

SpecRep == InitBare /\ [][NextRep]_vars


-----------------------------------------------------------------------------
(* A bare FiniteStateMachine: rules are registered with add_transition and
   the machine is updated with feature vectors.  The registered predicates
   are taken from the squat variant; the frames make none, one or both of
   them true. *)

BareFrom == {"START", "DESCENDING"}
BareTo == {"DESCENDING", "BOTTOM"}
BareConds == {"squat_bottom_ascending", "squat_ascending_start"}
BareFrames ==
    {f \in SquatFrames : /\ f.hip_angle_avg = 170 /\ f.sym_knee = 0
                         /\ f.knee_angle_avg \in {110, 170}
                         /\ f.knee_vel_avg \in {0, 6}}

RuleCount(m) ==
    Len(m.transitions["START"]) + Len(m.transitions["DESCENDING"])

FsmAdd(from_s, to_s, cond) ==
    /\ RuleCount(fsm) < MaxRules
    /\ fsm' = AddTransition(fsm, from_s, to_s, cond)
    /\ last' = [NoLast EXCEPT !.kind = "fsm_add"]
    /\ UNCHANGED <<cfg, forced_exercise, current_ex, form, reps, feat,
                   phase_score, rep_frames, fed, det>>
    /\ UNCHANGED restVars

FsmFeed(f) ==
    /\ fsm' = FsmUpdate(fsm, f)
    /\ feat' = f
    /\ last' = [NoLast EXCEPT !.kind = "fsm_update", !.phase_in = fsm.current]
    /\ UNCHANGED <<cfg, forced_exercise, current_ex, form, reps,
                   phase_score, rep_frames, fed, det>>
    /\ UNCHANGED restVars

InitFsm ==
    /\ cfg = Thresholds
    /\ forced_exercise = None
    /\ current_ex = None
    /\ fsm = WithTh(FsmNew("START"), Thresholds.squat)
    /\ form = NoForm
    /\ reps = RepCounterNew
    /\ feat = Standing
    /\ phase_score = Scored(<<>>)
    /\ last = NoLast
    /\ rep_frames = NewRep
    /\ fed = <<>>
    /\ det = NoDet
    /\ RestInit

NextFsm ==
    \/ \E from_s \in BareFrom, to_s \in BareTo, cond \in BareConds :
          FsmAdd(from_s, to_s, cond)
    \/ \E f \in BareFrames : FsmFeed(f)

SpecFsm == InitFsm /\ [][NextFsm]_vars

-----------------------------------------------------------------------------
(* Replay: a feature sequence is run on a new FSM variant, reset() is
   called, and the same sequence is run again. *)

ReplayFrames(label) ==
    CASE label = "squat" ->
            {f \in SquatFrames : f.sym_knee = 0 /\
                (f.hip_angle_avg = 170 \/
                 (f.knee_angle_avg = 170 /\ f.knee_vel_avg = 0))}
      [] label = "pushup" ->
            {f \in PushupFrames : f.shoulder_hip_ankle_angle_avg = 175 \/
                 (f.elbow_angle_avg = 170 /\ f.elbow_vel_avg = 0)}
      [] label = "lunge" ->
            {f \in LungeFrames : f.back_knee_angle = 170 \/
                 f.back_knee_angle = f.front_knee_angle}

DetFeed(f) ==
    /\ det.run = 1
    /\ Len(det.inputs) < MaxSeq
    /\ fsm' = FsmUpdate(fsm, f)
    /\ feat' = f
    /\ det' = [det EXCEPT !.inputs = Append(@, f),
                          !.phases1 = Append(@, fsm'.current)]
    /\ UNCHANGED <<cfg, forced_exercise, current_ex, form, reps,
                   phase_score, last, rep_frames, fed>>
    /\ UNCHANGED restVars

DetReset ==
    /\ det.run = 1
    /\ det.inputs # <<>>
    /\ fsm' = FsmReset(fsm)
    /\ det' = [det EXCEPT !.run = 2]
    /\ UNCHANGED <<cfg, forced_exercise, current_ex, form, reps, feat,
                   phase_score, last, rep_frames, fed>>
    /\ UNCHANGED restVars

DetReplay ==
    /\ det.run = 2
    /\ Len(det.phases2) < Len(det.inputs)
    /\ LET f == det.inputs[Len(det.phases2) + 1]
       IN  /\ fsm' = FsmUpdate(fsm, f)
           /\ feat' = f
           /\ det' = [det EXCEPT !.phases2 = Append(@, fsm'.current)]
    /\ UNCHANGED <<cfg, forced_exercise, current_ex, form, reps,
                   phase_score, last, rep_frames, fed>>
    /\ UNCHANGED restVars

InitDet ==
    /\ cfg = Thresholds
    /\ forced_exercise = None
    /\ current_ex \in Exercises
    /\ fsm = FSM_MAP(current_ex, cfg)
    /\ form = NoForm
    /\ reps = RepCounterNew
    /\ feat = Standing
    /\ phase_score = Scored(<<>>)
    /\ last = NoLast
    /\ rep_frames = NewRep
    /\ fed = <<>>
    /\ det = [NoDet EXCEPT !.run = 1]
    /\ RestInit

NextDet ==
    \/ \E f \in ReplayFrames(current_ex) : DetFeed(f)
    \/ DetReset
    \/ DetReplay

SpecDet == InitDet /\ [][NextDet]_vars

-----------------------------------------------------------------------------
(* A SignalSmoother alone: update is called with mappings over some of the
   keys.  Two keys end in a velocity suffix; "vel", "vel_avg" and
   "knee_vel_l" contain the word without ending in "_vel" or "_vel_avg". *)

SmoothValues == {Num(80), Num(170)}

SmoothDomains ==
    {{"knee_angle_avg", "knee_vel_avg", "front_knee_vel"},
     {"front_knee_vel", "vel", "vel_avg", "knee_vel_l"},
     {"knee_vel_avg"}}

SmoothSignals == UNION {[d -> SmoothValues] : d \in SmoothDomains}

SmootherParams ==
    {SignalSmootherNew("ema", Rat(1, 4), Rat(1, 100), Num(1)),
     SignalSmootherNew("ema", Rat(3, 10), Rat(1, 100), Num(1)),
     SignalSmootherNew("kalman", Rat(3, 10), Num(1), Num(1)),
     SignalSmootherNew("kalman", Rat(3, 10), Num(1), Num(2))}

SmoothUpdate(signals) ==
    /\ smoothed.calls < MaxUpdates
    /\ \E u \in {SmootherUpdate(smoother, signals)} :
           /\ smoother' = u.sm
           /\ smoothed' = [calls |-> smoothed.calls + 1, signals |-> signals,
                           out |-> u.out]
    /\ UNCHANGED coreVars
    /\ UNCHANGED <<called, audio, thr, feats, runner, run>>

InitSmooth ==
    /\ cfg = Thresholds
    /\ forced_exercise = None
    /\ current_ex = None
    /\ fsm = NoFsm
    /\ form = NoForm
    /\ reps = RepCounterNew
    /\ feat = Standing
    /\ phase_score = Scored(<<>>)
    /\ last = NoLast
    /\ rep_frames = NewRep
    /\ fed = <<>>
    /\ det = NoDet
    /\ smoother \in SmootherParams
    /\ smoothed = NoSmoothed
    /\ called = NoCall
    /\ audio = AudioFeedbackNew(TRUE, 8)
    /\ thr = NoThreads
    /\ feats = FeatureExtractorNew(5)
    /\ runner = RunnerNew
    /\ run = NoRun

NextSmooth == \E signals \in SmoothSignals : SmoothUpdate(signals)

SpecSmooth == InitSmooth /\ [][NextSmooth]_vars

-----------------------------------------------------------------------------
(* An AudioFeedback alone: one thread calls speak and close, one call after
   the other; the worker thread runs beside it.  Every queue operation is
   one step (queue.Queue is locked), and the worker may take its steps
   between any two steps of a call. *)

Texts == {"", "Insufficient squat depth", "Good form!"}

Returned(call, accepted, text, found_full, joined) ==
    [call |-> call, accepted |-> accepted, text |-> text,
     found_full |-> found_full, joined |-> joined]

(* speak, lines 75-94: the tests that ignore a call, then the bookkeeping
   of an accepted text.  dt is the time since the previous call. *)
SpeakCall(text, dt) ==
    /\ thr.caller.pc = "idle"
    /\ thr.calls < MaxCalls
    /\ LET now == thr.now + dt
           t1 == [thr EXCEPT !.now = now, !.calls = @ + 1]
       IN  IF SpeakIgnored(audio, text, now)
           THEN /\ audio' = audio
                /\ thr' = [t1 EXCEPT !.ret = Returned("speak", FALSE, text, FALSE, None)]
           ELSE /\ audio' = SpeakAccepted(audio, text, now)
                /\ thr' = IF ~audio.has_q
                          THEN [t1 EXCEPT !.ret = Returned("speak", TRUE, text, FALSE, None)]
                          ELSE [t1 EXCEPT !.caller.pc = "speak_put",
                                          !.caller.text = text]
    /\ UNCHANGED <<coreVars, smoother, smoothed, called, feats, runner, run>>

SpeakPutStep ==
    /\ thr.caller.pc = "speak_put"
    /\ \E r \in {SpeakPut(audio.q, thr.caller.text)} :
           /\ audio' = [audio EXCEPT !.q = r.q]
           /\ thr' = IF r.pc = "idle"
                     THEN [thr EXCEPT !.caller.pc = "idle", !.caller.put = TRUE,
                                      !.caller.taken_before = Len(thr.taken),
                                      !.ret = Returned("speak", TRUE, thr.caller.text,
                                                       FALSE, None)]
                     ELSE [thr EXCEPT !.caller.pc = r.pc]
    /\ UNCHANGED <<coreVars, smoother, smoothed, called, feats, runner, run>>

SpeakDropStep ==
    /\ thr.caller.pc = "speak_drop"
    /\ audio' = [audio EXCEPT !.q = DropPending(audio.q)]
    /\ thr' = [thr EXCEPT !.caller.pc = "speak_reput", !.dropped = @ \o audio.q]
    /\ UNCHANGED <<coreVars, smoother, smoothed, called, feats, runner, run>>

SpeakReputStep ==
    /\ thr.caller.pc = "speak_reput"
    /\ \E r \in {PutAgain(audio.q, thr.caller.text)} :
           /\ audio' = [audio EXCEPT !.q = r.q]
           /\ thr' = [thr EXCEPT !.caller.pc = "idle", !.caller.put = r.put,
                                 !.caller.taken_before = Len(thr.taken),
                                 !.ret = Returned("speak", TRUE, thr.caller.text,
                                                  TRUE, None)]
    /\ UNCHANGED <<coreVars, smoother, smoothed, called, feats, runner, run>>

(* close, lines 52-55 *)
CloseCall ==
    /\ thr.caller.pc = "idle"
    /\ thr.calls < MaxCalls
    /\ thr' = IF ~audio.enabled \/ ~audio.has_q
              THEN [thr EXCEPT !.calls = @ + 1,
                               !.ret = Returned("close", FALSE, None, FALSE, None)]
              ELSE [thr EXCEPT !.calls = @ + 1, !.caller.pc = "close_put",
                               !.caller.text = None]
    /\ UNCHANGED <<coreVars, smoother, smoothed, called, audio, feats, runner, run>>

ClosePutStep ==
    /\ thr.caller.pc = "close_put"
    /\ \E r \in {ClosePut(audio.q)} :
           /\ audio' = [audio EXCEPT !.q = r.q]
           /\ thr' = [thr EXCEPT !.caller.pc = r.pc, !.caller.put = r.put]
    /\ UNCHANGED <<coreVars, smoother, smoothed, called, feats, runner, run>>

CloseDropStep ==
    /\ thr.caller.pc = "close_drop"
    /\ audio' = [audio EXCEPT !.q = DropPending(audio.q)]
    /\ thr' = [thr EXCEPT !.caller.pc = "close_reput", !.dropped = @ \o audio.q]
    /\ UNCHANGED <<coreVars, smoother, smoothed, called, feats, runner, run>>

CloseReputStep ==
    /\ thr.caller.pc = "close_reput"
    /\ \E r \in {PutAgain(audio.q, None)} :
           /\ audio' = [audio EXCEPT !.q = r.q]
           /\ thr' = [thr EXCEPT !.caller.pc = "close_join", !.caller.put = r.put]
    /\ UNCHANGED <<coreVars, smoother, smoothed, called, feats, runner, run>>

(* self._thread.join(timeout=timeout_s): returns at once when the worker
   has ended, and after timeout_s (10 tenths) when it has not. *)
CloseJoin ==
    /\ thr.caller.pc = "close_join"
    /\ LET ended == thr.worker.pc \in {"done", "crashed"}
       IN  thr' = [thr EXCEPT !.caller.pc = "idle",
                              !.now = IF ended THEN @ ELSE @ + 10,
                              !.ret = Returned("close", TRUE, None, FALSE,
                                               IF ended THEN "ended" ELSE "timeout")]
    /\ UNCHANGED <<coreVars, smoother, smoothed, called, audio, feats, runner, run>>

(* _worker, lines 114-121: pyttsx3.init() and setProperty succeed or raise *)
WorkerInit(ok) ==
    /\ thr.worker.pc = "init"
    /\ audio' = IF ok THEN [audio EXCEPT !.engine = "engine"]
                ELSE [audio EXCEPT !.enabled = FALSE, !.engine = None]
    /\ thr' = [thr EXCEPT !.worker.pc = IF ok THEN "get" ELSE "done"]
    /\ UNCHANGED <<coreVars, smoother, smoothed, called, feats, runner, run>>

(* text = self._q.get(), which waits for an item, and the two tests on it *)
WorkerGet ==
    /\ thr.worker.pc = "get"
    /\ audio.q # <<>>
    /\ \E r \in {QueueGetNowait(audio.q)} :
           /\ audio' = [audio EXCEPT !.q = r.q]
           /\ thr' = [thr EXCEPT !.taken = Append(@, r.item),
                                 !.worker.text = r.item,
                                 !.worker.pc = IF r.item = None THEN "done"
                                               ELSE IF r.item = "" THEN "get"
                                               ELSE "speak"]
    /\ UNCHANGED <<coreVars, smoother, smoothed, called, feats, runner, run>>

(* engine.stop(); engine.say(text); engine.runAndWait(): done, or raised *)
WorkerSpeak(delivered) ==
    /\ thr.worker.pc = "speak"
    /\ thr' = [thr EXCEPT !.worker = WorkerAfterSpeech(@, delivered)]
    /\ UNCHANGED <<coreVars, smoother, smoothed, called, audio, feats, runner, run>>

SpeakStep == SpeakPutStep \/ SpeakDropStep \/ SpeakReputStep

CloseStep == ClosePutStep \/ CloseDropStep \/ CloseReputStep \/ CloseJoin

InitAudio ==
    /\ cfg = Thresholds
    /\ forced_exercise = None
    /\ current_ex = None
    /\ fsm = NoFsm
    /\ form = NoForm
    /\ reps = RepCounterNew
    /\ feat = Standing
    /\ phase_score = Scored(<<>>)
    /\ last = NoLast
    /\ rep_frames = NewRep
    /\ fed = <<>>
    /\ det = NoDet
    /\ smoother = SignalSmootherNew("ema", Rat(1, 4), Rat(1, 100), Num(1))
    /\ smoothed = NoSmoothed
    /\ called = NoCall
    /\ audio \in {AudioFeedbackNew(TRUE, 8), AudioFeedbackNew(FALSE, 8)}
    /\ thr = IF audio.enabled THEN NoThreads
             ELSE [NoThreads EXCEPT !.worker.pc = "none"]
    /\ feats = FeatureExtractorNew(5)
    /\ runner = RunnerNew
    /\ run = NoRun

NextAudio ==
    \/ \E text \in Texts : \E dt \in {0, audio.change_gap_s} : SpeakCall(text, dt)
    \/ SpeakPutStep
    \/ SpeakDropStep
    \/ SpeakReputStep
    \/ CloseCall
    \/ ClosePutStep
    \/ CloseDropStep
    \/ CloseReputStep
    \/ CloseJoin
    \/ \E ok \in BOOLEAN : WorkerInit(ok)
    \/ WorkerGet
    \/ \E delivered \in BOOLEAN : WorkerSpeak(delivered)

SpecAudio == InitAudio /\ [][NextAudio]_vars

-----------------------------------------------------------------------------
(* SessionRunner.run: one call on a fresh SessionRunner.  The stream, the
   pose source, the classifier's label and the quit key are inputs. *)

(* Landmark mappings: the joints named and the angles between them, all
   heights at 0.  Tall stands upright, Dip bends both knees to 136 degrees,
   Uneven bends the right knee only; NoDetection is detect()'s None and
   Partial a mapping that names the left hip only. *)
Pose(joints, knee_l, knee_r) ==
    [joints |-> joints,
     ang |-> [knee_l |-> Deg(knee_l), knee_r |-> Deg(knee_r),
              hip_l |-> Deg(180), hip_r |-> Deg(180),
              elbow_l |-> Deg(180), elbow_r |-> Deg(180),
              line_l |-> Deg(180), line_r |-> Deg(180),
              hip_y_l |-> 0, hip_y_r |-> 0,
              shoulder_y_l |-> 0, shoulder_y_r |-> 0,
              wrist_y_l |-> 0, wrist_y_r |-> 0]]

AllJoints == RequiredJoints \cup {"nose"}

NoDetection == Pose({}, 180, 180)
Partial == Pose({"left_hip"}, 180, 180)
Tall == Pose(AllJoints, 180, 180)
Dip == Pose(AllJoints, 136, 136)
Uneven == Pose(AllJoints, 180, 136)

Landmarks == {NoDetection, Partial, Tall, Dip, Uneven}

ReadKind(lm) ==
    IF lm.joints = {} THEN "nodetect"
    ELSE IF ~(RequiredJoints \subseteq lm.joints) THEN "partial"
    ELSE "frame"

(* the labels the classifier gives in the runs explored *)
RunLabels == {"squat", "pushup"}

(* the time between two frames, tenths of a second *)
FramePeriod == 2

(* the arguments of run(): mode, output_path given, save_summary_path
   given, show_window, forced_exercise *)
RunParams ==
    {[mode |-> "webcam", output_path |-> FALSE, save_summary_path |-> FALSE,
      show_window |-> TRUE, forced_exercise |-> None],
     [mode |-> "video", output_path |-> TRUE, save_summary_path |-> TRUE,
      show_window |-> FALSE, forced_exercise |-> "squat"],
     [mode |-> "video", output_path |-> FALSE, save_summary_path |-> TRUE,
      show_window |-> FALSE, forced_exercise |-> None]}

(* Lines 156-171.  VideoFileStream.start raises ValueError for a file that
   cannot be opened; VideoStream.start does not raise. *)
RunStart(opened) ==
    /\ run.pc = "new"
    /\ run.mode = "webcam" => opened
    /\ IF ~opened
       THEN /\ run' = [run EXCEPT !.pc = "raised"]
            /\ audio' = audio
       ELSE /\ run' = [run EXCEPT !.pc = "loop", !.stream.started = TRUE,
                                  !.writer = IF run.mode = "video" /\ run.output_path
                                             THEN "open" ELSE "none"]
            /\ audio' = SetChangeGap(audio, IF run.mode = "webcam" THEN 4 ELSE 25)
    /\ UNCHANGED <<coreVars, smoother, smoothed, called, thr, feats, runner>>

(* The keys of the diagnostics predict returns *)
DebugKeys ==
    {"pushup_score", "squat_score", "lunge_score", "trunk", "knee_avg",
     "elbow_avg", "sym_knee"}

(* What classifier.predict returns when it answers label: the confidences
   of the runs explored are 2/3 for squat and 1/2 for any other label. *)
PredictionOf(label) ==
    [label |-> label,
     confidence |-> IF label = "squat" THEN 667 ELSE 500,
     debug |-> DebugKeys,
     predicted |-> TRUE]

Prediction_AlwaysClassifier(forced, p) == p

(* Lines 190-207: the prediction a frame is processed with.  In forced mode
   it is the _Pred stand-in with the forced label, confidence 1.0 and
   debug = {}, and predict is not called; else it is p, what predict
   returned. *)
Prediction(forced, p) ==
    IF forced # None
    THEN [label |-> forced, confidence |-> 1000, debug |-> {},
          predicted |-> FALSE]
    ELSE p

(* predict stores the label it returns in classifier.current_label *)
Consulted(rn, pred) ==
    IF pred.predicted THEN [rn EXCEPT !.classifier.current_label = pred.label]
    ELSE rn

(* Lines 278-288: what drawHUD is given of the prediction *)
DrawHUD(rn, pred) ==
    [rn EXCEPT !.hud = <<[label |-> pred.label, confidence |-> pred.confidence,
                          debug |-> pred.debug]>>]

(* Lines 189-275 for the smoothed features f of a detected frame at time
   now: the exercise selection, FSM, counter and form score, the feedback
   and its speech, the frame row, the rep row when rep_count has passed
   rep_id, and the summary. *)
Processed(label, f, now) ==
    /\ FrameCore(label, f)
    /\ \E pred \in {Prediction(forced_exercise, PredictionOf(label))} :
       \E fb \in {Generate(fsm'.current, phase_score', f, reps'.rep_count)} :
       \E rn1 \in {LogFrame(IF last'.swapped
                            THEN RunnerSwap(runner, pred.label)
                            ELSE runner,
                            pred, fsm'.current, f, fb,
                            reps'.rep_count, now)} :
       \E flush \in {reps'.rep_count > rn1.rep_id} :
       \E top \in (IF flush
                   THEN TopWarnings(AllWarn(rn1.rep_buffer))
                   ELSE {""}) :
           /\ audio' = IF fb.speak_text # ""
                       THEN Speak(audio, fb.speak_text, now)
                       ELSE audio
           /\ runner' = DrawHUD(Summarise(
                                    IF flush
                                    THEN FlushRep(Consulted(rn1, pred), current_ex',
                                                  reps'.rep_count, top)
                                    ELSE Consulted(rn1, pred),
                                    fsm'.current, fb, reps'.rep_count),
                                pred)

(* One pass of the loop for a frame the stream delivers: lm is what
   detect() returns for it, label the classifier's prediction, quit the
   state of the quit key when the window is shown.  compute_all's KeyError
   is caught nowhere and leaves run(). *)
RunFrame(lm, label, quit) ==
    /\ run.pc = "loop"
    /\ run.reads < MaxRun
    /\ \E now \in {thr.now + FramePeriod} :
       \E r1 \in {[run EXCEPT !.reads = @ + 1, !.last_read = ReadKind(lm)]} :
       \E ca \in {ComputeAll(feats, lm)} :
           IF ~Truthy(lm)
           THEN /\ run' = AfterFrame(r1, quit)
                /\ thr' = [thr EXCEPT !.now = now]
                /\ UNCHANGED <<coreVars, smoother, smoothed, called, audio, feats, runner>>
           ELSE IF ca.raised
           THEN /\ run' = [r1 EXCEPT !.pc = "raised"]
                /\ thr' = [thr EXCEPT !.now = now]
                /\ UNCHANGED <<coreVars, smoother, smoothed, called, audio, feats, runner>>
           ELSE \E su \in {SmootherUpdate(smoother, ToSignals(ca.f))} :
                \E f \in {FromSignals(su.out)} :
                    /\ Processed(label, f, now)
                    /\ feats' = ca.fe
                    /\ smoother' = su.sm
                    /\ run' = AfterFrame(r1, quit)
                    /\ thr' = [thr EXCEPT !.now = now]
                    /\ UNCHANGED <<cfg, forced_exercise, fed, det, smoothed, called>>

(* readFrame returns None: the loop ends (lines 175-178) *)
RunEndOfStream ==
    /\ run.pc = "loop"
    /\ run' = [run EXCEPT !.reads = @ + 1, !.last_read = "eof",
                          !.eos = TRUE, !.pc = "finalize"]
    /\ UNCHANGED <<coreVars, smoother, smoothed, called, audio, thr, feats, runner>>

RunFinalize ==
    /\ run.pc = "finalize"
    /\ \E z \in {Finalize(runner, run)} :
           /\ runner' = z.runner
           /\ run' = z.run
    /\ UNCHANGED <<coreVars, smoother, smoothed, called, audio, thr, feats>>

InitRun ==
    /\ cfg = ScaleCfg(Thresholds)
    /\ \E a \in RunParams :
           /\ forced_exercise = a.forced_exercise
           /\ run = [NoRun EXCEPT !.mode = a.mode,
                                  !.output_path = a.output_path,
                                  !.save_summary_path = a.save_summary_path,
                                  !.show_window = a.show_window]
    /\ current_ex = None
    /\ fsm = NoFsm
    /\ form = NoForm
    /\ reps = RepCounterNew
    /\ feat = Standing
    /\ phase_score = Scored(<<>>)
    /\ last = NoLast
    /\ rep_frames = NewRep
    /\ fed = <<>>
    /\ det = NoDet
    /\ smoother = SignalSmootherNew("ema", Rat(1, 4), Rat(1, 100), Num(1))
    /\ smoothed = NoSmoothed
    /\ called = NoCall
    /\ audio = AudioFeedbackNew(TRUE, 8)
    /\ thr = NoThreads
    /\ feats = FeatureExtractorNew(5)
    /\ runner = RunnerNew

NextRun ==
    \/ \E opened \in BOOLEAN : RunStart(opened)
    \/ \E lm \in Landmarks : \E label \in RunLabels : \E quit \in BOOLEAN :
           RunFrame(lm, label, quit)
    \/ RunEndOfStream
    \/ RunFinalize

SpecRun == InitRun /\ [][NextRun]_vars

(* run() keeps executing: once the loop has ended, the cleanup runs *)
SpecRunLive == SpecRun /\ WF_vars(RunFinalize)

-----------------------------------------------------------------------------
(* A session whose configuration lacks a threshold or a whole section.  A
   KeyError is caught nowhere and ends the session; last.kind tells where it
   was raised: in _swap_exercise, in fsm.update or in scorePhase. *)

BadConfigs ==
    {[Thresholds EXCEPT !.squat = Without(@, "vel_eps")],
     [Thresholds EXCEPT !.squat = Without(@, "bottom_knee")],
     [Thresholds EXCEPT !.form.squat = Without(@, "sym_knee_max")],
     [Thresholds EXCEPT !.form.squat = Without(@, "bottom_knee_max")],
     [Thresholds EXCEPT !.form.lunge = Without(@, "bottom_back_knee_max")],
     [Thresholds EXCEPT !.form = Without(@, "lunge")],
     Without(Thresholds, "pushup")}

Raised(kind, swapped) ==
    [NoLast EXCEPT !.kind = kind, !.swapped = swapped,
                   !.ex_before = current_ex, !.count_before = reps.rep_count]

CfgFrame(label, f) ==
    /\ last.kind \in {"none", "frame"}
    /\ runner.frame_idx < MaxCfg
    /\ LET swapped == current_ex # label
       IN  \E sw \in {IF swapped
                      THEN SwapAttempt(label, cfg, current_ex, fsm, form, reps)
                      ELSE [at |-> "none", current_ex |-> current_ex,
                            fsm |-> fsm, form |-> form, reps |-> reps]} :
           IF sw.at # "none"
           THEN /\ current_ex' = sw.current_ex
                /\ fsm' = sw.fsm
                /\ form' = sw.form
                /\ reps' = sw.reps
                /\ last' = Raised("raised_swap", swapped)
                /\ UNCHANGED <<phase_score, feat, rep_frames>>
           ELSE IF FsmUpdateRaises(sw.fsm, f)
           THEN /\ current_ex' = sw.current_ex
                /\ fsm' = sw.fsm
                /\ form' = sw.form
                /\ reps' = sw.reps
                /\ last' = Raised("raised_update", swapped)
                /\ UNCHANGED <<phase_score, feat, rep_frames>>
           ELSE \E m \in {FsmUpdate(sw.fsm, f)} :
                \E r \in {RepCounterUpdate(sw.reps, m.current)} :
                \E e1 \in {UpdateMinima(sw.form, m.current, f)} :
                    IF ScoreRaises(e1, m.current, f)
                    THEN /\ current_ex' = sw.current_ex
                         /\ fsm' = m
                         /\ reps' = r
                         /\ form' = e1
                         /\ last' = Raised("raised_score", swapped)
                         /\ UNCHANGED <<phase_score, feat, rep_frames>>
                    ELSE FrameCore(label, f)
    /\ runner' = IF last'.kind = "frame"
                 THEN [runner EXCEPT !.frame_idx = @ + 1] ELSE runner
    /\ UNCHANGED <<cfg, forced_exercise, fed, det>>
    /\ UNCHANGED <<smoother, smoothed, called, audio, thr, feats, run>>

InitCfg ==
    /\ cfg \in BadConfigs \cup {Thresholds}
    /\ forced_exercise = None
    /\ current_ex = None
    /\ fsm = NoFsm
    /\ form = NoForm
    /\ reps = RepCounterNew
    /\ feat = Standing
    /\ phase_score = Scored(<<>>)
    /\ last = NoLast
    /\ rep_frames = NewRep
    /\ fed = <<>>
    /\ det = NoDet
    /\ RestInit

NextCfg == \E label \in Exercises : \E f \in FramesOf(label) : CfgFrame(label, f)

SpecCfg == InitCfg /\ [][NextCfg]_vars

-----------------------------------------------------------------------------
(* One synthetic squat rep fed to the squat FSM, the rep counter and the
   squat evaluator as run() feeds them (lines 209-231): the knee angles of
   SquatTrace, the velocity FeatureExtractor._velocity gives for them,
   symmetric knees, the hips standing on the last frame and standing or
   bent before it.  The thresholds vary around the trace's lowest angle. *)

SquatTrace == <<170, 150, 120, 95, 96, 120, 150, 172>>

TraceConfigs ==
    {[Thresholds EXCEPT !.squat.bottom_knee = b, !.squat.vel_eps = v,
                        !.form.squat.bottom_knee_max = d] :
        b \in {80, 96}, v \in {1, 5}, d \in {80, 94, 95, 96}}

TraceFeed(hip) ==
    /\ runner.frame_idx < Len(SquatTrace)
    /\ runner.frame_idx + 1 = Len(SquatTrace) => hip = 170
    /\ \E kv \in {Velocity(feats.knee_hist, SquatTrace[runner.frame_idx + 1],
                           feats.history)} :
       \E f \in {[Standing EXCEPT !.knee_angle_avg = SquatTrace[runner.frame_idx + 1],
                                  !.knee_vel_avg = kv.vel,
                                  !.hip_angle_avg = hip]} :
           /\ FrameCore("squat", f)
           /\ feats' = [feats EXCEPT !.knee_hist = kv.hist]
           /\ runner' = [TrackScore(runner, phase_score')
                            EXCEPT !.frame_idx = @ + 1]
    /\ UNCHANGED <<cfg, forced_exercise, fed, det>>
    /\ UNCHANGED <<smoother, smoothed, called, audio, thr, run>>

InitTrace ==
    /\ cfg \in TraceConfigs
    /\ forced_exercise = "squat"
    /\ current_ex = None
    /\ fsm = NoFsm
    /\ form = NoForm
    /\ reps = RepCounterNew
    /\ feat = Standing
    /\ phase_score = Scored(<<>>)
    /\ last = NoLast
    /\ rep_frames = NewRep
    /\ fed = <<>>
    /\ det = NoDet
    /\ RestInit

NextTrace == \E hip \in {100, 170} : TraceFeed(hip)

SpecTrace == InitTrace /\ [][NextTrace]_vars

-----------------------------------------------------------------------------
(* FeedbackEngine.generate alone: the engine and the arguments are chosen
   at the start, then generate is called once. *)

FbEngines ==
    {FeedbackEngineNew(t, ph) :
        t \in {5, 8}, ph \in {<<>>, <<{}>>, <<{"Start", "Top"}>>}}

FbWarnings ==
    {<<>>, <<"Knee alignment uneven">>,
     <<"Knee alignment uneven", "Insufficient squat depth">>,
     <<"Insufficient squat depth", "Knee alignment uneven">>}

FbArgs ==
    {[eng |-> e, pretty |-> Pretty(ph), ps |-> [score |-> sc, warnings |-> ws],
      rep_count |-> n] :
        e \in FbEngines, ph \in PhaseName, sc \in {0, 4, 5, 7, 8, 10},
        ws \in FbWarnings, n \in 0..MaxRepArg}

FbGenerate ==
    /\ called.fn = "generate"
    /\ called.out = <<>>
    /\ called' = [called EXCEPT !.out =
                      <<GenerateWith(called.args.eng, called.args.pretty,
                                     called.args.ps, called.args.rep_count)>>]
    /\ UNCHANGED <<coreVars, smoother, smoothed, audio, thr, feats, runner, run>>

InitFb ==
    /\ cfg = Thresholds
    /\ forced_exercise = None
    /\ current_ex = None
    /\ fsm = NoFsm
    /\ form = NoForm
    /\ reps = RepCounterNew
    /\ feat = Standing
    /\ phase_score = Scored(<<>>)
    /\ last = NoLast
    /\ rep_frames = NewRep
    /\ fed = <<>>
    /\ det = NoDet
    /\ smoother = SignalSmootherNew("ema", Rat(1, 4), Rat(1, 100), Num(1))
    /\ smoothed = NoSmoothed
    /\ \E a \in FbArgs : called = [fn |-> "generate", args |-> a, out |-> <<>>]
    /\ audio = AudioFeedbackNew(TRUE, 8)
    /\ thr = NoThreads
    /\ feats = FeatureExtractorNew(5)
    /\ runner = RunnerNew
    /\ run = NoRun

NextFb == FbGenerate

SpecFb == InitFb /\ [][NextFb]_vars

-----------------------------------------------------------------------------
(* A FormEvaluator alone: one evaluator per exercise, and one for a name
   that is no exercise, is given an arbitrary sequence of phases (None for a
   state without a name) and feature vectors on both sides of the form
   thresholds. *)

Evaluators ==
    {FormEvaluatorNew(ex, Thresholds.form[ex]) : ex \in Exercises}
        \cup {FormEvaluatorNew("plank", <<>>)}

ScoreFrames ==
    {[Standing EXCEPT !.sym_knee = a[1], !.knee_angle_avg = a[2],
                      !.elbow_angle_avg = a[3],
                      !.shoulder_hip_ankle_angle_avg = a[4],
                      !.front_knee_angle = a[5], !.back_knee_angle = a[6]] :
        a \in {0, 20} \X {70, 90} \X {70, 90} \X {150, 175} \X {70, 90}
                 \X {100, 120}}

(* The knee and elbow angles of the frames scored in DESCENDING since the
   last frame scored in START, TOP or RESET, kept beside the call. *)
DescSeen == IF called.fn = "scorePhase" THEN called.desc ELSE {}

ScoreCall(phase, f) ==
    /\ \E sc \in {ScorePhase(form, phase, f)} :
           /\ form' = sc.e
           /\ phase_score' = sc.out
           /\ called' = [fn |-> "scorePhase", args |-> <<phase>>,
                         out |-> <<sc.out>>,
                         desc |-> IF phase \in TopPhases THEN {}
                                  ELSE IF phase = "DESCENDING"
                                  THEN DescSeen \cup {<<f.knee_angle_avg,
                                                        f.elbow_angle_avg>>}
                                  ELSE DescSeen]
    /\ UNCHANGED <<cfg, forced_exercise, current_ex, fsm, reps, feat, last,
                   rep_frames, fed, det>>
    /\ UNCHANGED <<smoother, smoothed, audio, thr, feats, runner, run>>

InitScore ==
    /\ cfg = Thresholds
    /\ forced_exercise = None
    /\ current_ex = None
    /\ fsm = NoFsm
    /\ form \in Evaluators
    /\ reps = RepCounterNew
    /\ feat = Standing
    /\ phase_score = Scored(<<>>)
    /\ last = NoLast
    /\ rep_frames = NewRep
    /\ fed = <<>>
    /\ det = NoDet
    /\ RestInit

NextScore ==
    \E phase \in PhaseName \cup {None} : \E f \in ScoreFrames :
        ScoreCall(phase, f)

SpecScore == InitScore /\ [][NextScore]_vars

-----------------------------------------------------------------------------
(* The bookkeeping of run() over sessions of a bounded number of processed
   frames, with the classifier (SpecLog) and in forced mode (SpecForced): the
   smoothed features of each frame and the label are the inputs.  A squat with uneven knees goes down to 110 degrees, comes up and
   stands; a frame labelled pushup shows the body at rest. *)

ScaleFrame(f) == [k \in DOMAIN f |-> Deg(f[k])]

KneesDown ==
    ScaleFrame([Standing EXCEPT !.knee_angle_avg = 110, !.knee_vel_avg = 0 - 6,
                                !.sym_knee = 20])

KneesUp ==
    ScaleFrame([Standing EXCEPT !.knee_angle_avg = 110, !.knee_vel_avg = 6,
                                !.sym_knee = 20])

KneesTall == ScaleFrame([Standing EXCEPT !.sym_knee = 20])

AtRest == ScaleFrame(Standing)

LogInputs ==
    {<<"squat", KneesDown>>, <<"squat", KneesUp>>, <<"squat", KneesTall>>,
     <<"pushup", AtRest>>}

LogFeed(max, label, f) ==
    /\ runner.frame_idx < max
    /\ \E now \in {thr.now + FramePeriod} :
           /\ Processed(label, f, now)
           /\ thr' = [thr EXCEPT !.now = now]
    /\ UNCHANGED <<cfg, forced_exercise, fed, det>>
    /\ UNCHANGED <<smoother, smoothed, called, feats, run>>

LogInit(forced) ==
    /\ cfg = ScaleCfg(Thresholds)
    /\ forced_exercise = forced
    /\ current_ex = None
    /\ fsm = NoFsm
    /\ form = NoForm
    /\ reps = RepCounterNew
    /\ feat = Standing
    /\ phase_score = Scored(<<>>)
    /\ last = NoLast
    /\ rep_frames = NewRep
    /\ fed = <<>>
    /\ det = NoDet
    /\ smoother = SignalSmootherNew("ema", Rat(1, 4), Rat(1, 100), Num(1))
    /\ smoothed = NoSmoothed
    /\ called = NoCall
    /\ audio = SetChangeGap(AudioFeedbackNew(TRUE, 8), 4)
    /\ thr = NoThreads
    /\ feats = FeatureExtractorNew(5)
    /\ runner = RunnerNew
    /\ run = NoRun

InitLog == LogInit(None)

NextLog == \E in \in LogInputs : LogFeed(MaxLog, in[1], in[2])

SpecLog == InitLog /\ [][NextLog]_vars

InitForced == LogInit("squat")

NextForced ==
    \E f \in {KneesDown, KneesUp, KneesTall} : LogFeed(MaxForced, "squat", f)

SpecForced == InitForced /\ [][NextForced]_vars

-----------------------------------------------------------------------------
(* ExerciseClassifier alone: one call of _ramp or of predict, its arguments
   chosen at the start.  The classifier thresholds come from the
   configuration; ClassifierThresholds holds a usual set, sets whose
   ramps have no width or a negative one, and a set under which the squat
   and lunge scores of a frame can be equal. *)

RampValues ==
    {Num(0 - 1), Num(0), Rat(1, 2), Num(1), Rat(3, 2), Num(2), Num(3)}

UsualClassifier ==
    [pushup_trunk_min |-> Num(150), pushup_wrist_below |-> Rat(1, 10),
     pushup_top_elbow |-> Num(160), pushup_elbow_flex_range |-> Num(60),
     squat_trunk_max |-> Num(170), squat_trunk_range |-> Num(40),
     squat_stand_knee |-> Num(165), squat_knee_flex_range |-> Num(70),
     squat_sym_knee_max |-> Num(15),
     lunge_asym_min |-> Num(15), lunge_asym_max |-> Num(40)]

ClassifierThresholds ==
    {UsualClassifier,
     [UsualClassifier EXCEPT !.pushup_elbow_flex_range = Num(0),
                             !.squat_sym_knee_max = Num(0)],
     [UsualClassifier EXCEPT !.squat_trunk_range = Num(0 - 10),
                             !.lunge_asym_max = Num(15)],
     [UsualClassifier EXCEPT !.pushup_trunk_min = Num(180),
                             !.pushup_wrist_below = Rat(3, 5),
                             !.squat_knee_flex_range = Num(0),
                             !.lunge_asym_min = Num(50)],
     [UsualClassifier EXCEPT !.squat_trunk_range = Num(30),
                             !.lunge_asym_min = Num(0),
                             !.lunge_asym_max = Num(30)]}

(* self.current_label when predict is called: None before the first call,
   the label of the previous call afterwards *)
EarlierLabels == {None} \cup Exercises

(* the feature vectors given to predict; the empty one has no key at all *)
ClassifierFeatures ==
    {[shoulder_hip_ankle_angle_avg |-> Num(t), knee_angle_avg |-> Num(k),
      elbow_angle_avg |-> Num(e), sym_knee |-> Num(y),
      hip_y |-> Rat(1, 2), shoulder_y |-> Rat(2, 5), wrist_y |-> w] :
        t \in {140, 165, 180}, k \in {90, 180}, e \in {90, 180},
        y \in {0, 20, 40}, w \in {Rat(3, 5), Rat(9, 10)}}
    \cup {<<>>, [sym_knee |-> Num(30)]}

ClassifierCalls ==
    {[fn |-> "_ramp", args |-> <<x, lo, hi>>, out |-> <<>>] :
        x \in RampValues, lo \in RampValues, hi \in RampValues}
    \cup {[fn |-> "predict",
           args |-> <<[ExerciseClassifierNew(th) EXCEPT !.current_label = l], f>>,
           out |-> <<>>] :
        th \in ClassifierThresholds, f \in ClassifierFeatures,
        l \in EarlierLabels}

RampCall ==
    /\ called.fn = "_ramp"
    /\ called.out = <<>>
    /\ called' = [called EXCEPT
                     !.out = <<Ramp(called.args[1], called.args[2],
                                    called.args[3])>>]
    /\ UNCHANGED <<coreVars, smoother, smoothed, audio, thr, feats, runner, run>>

PredictCall ==
    /\ called.fn = "predict"
    /\ called.out = <<>>
    /\ \E p \in {Predict(called.args[1], called.args[2])} :
           called' = [called EXCEPT !.out = <<p.c, p.out>>]
    /\ UNCHANGED <<coreVars, smoother, smoothed, audio, thr, feats, runner, run>>

InitClassify ==
    /\ cfg = Thresholds
    /\ forced_exercise = None
    /\ current_ex = None
    /\ fsm = NoFsm
    /\ form = NoForm
    /\ reps = RepCounterNew
    /\ feat = Standing
    /\ phase_score = Scored(<<>>)
    /\ last = NoLast
    /\ rep_frames = NewRep
    /\ fed = <<>>
    /\ det = NoDet
    /\ smoother = SignalSmootherNew("ema", Rat(1, 4), Rat(1, 100), Num(1))
    /\ smoothed = NoSmoothed
    /\ called \in ClassifierCalls
    /\ audio = AudioFeedbackNew(TRUE, 8)
    /\ thr = NoThreads
    /\ feats = FeatureExtractorNew(5)
    /\ runner = RunnerNew
    /\ run = NoRun

NextClassify == RampCall \/ PredictCall

SpecClassify == InitClassify /\ [][NextClassify]_vars

-----------------------------------------------------------------------------
(* FeatureExtractor._velocity alone, on the knee history (the three
   histories go through the same method): an extractor built with a history
   length is given one sample after the other; fed holds every sample given
   so far. *)

Histories == {1, 2, 3, 5}

Samples == {120, 150, 170}

VelocityCall(current) ==
    /\ Len(fed) < MaxSamples
    /\ \E v \in {Velocity(feats.knee_hist, current, feats.history)} :
           /\ feats' = [feats EXCEPT !.knee_hist = v.hist]
           /\ called' = [fn |-> "_velocity", args |-> <<current>>,
                         out |-> <<v.vel>>]
    /\ fed' = Append(fed, current)
    /\ UNCHANGED <<cfg, forced_exercise, current_ex, fsm, form, reps, feat,
                   phase_score, last, rep_frames, det>>
    /\ UNCHANGED <<smoother, smoothed, audio, thr, runner, run>>

InitVelocity ==
    /\ cfg = Thresholds
    /\ forced_exercise = None
    /\ current_ex = None
    /\ fsm = NoFsm
    /\ form = NoForm
    /\ reps = RepCounterNew
    /\ feat = Standing
    /\ phase_score = Scored(<<>>)
    /\ last = NoLast
    /\ rep_frames = NewRep
    /\ fed = <<>>
    /\ det = NoDet
    /\ smoother = SignalSmootherNew("ema", Rat(1, 4), Rat(1, 100), Num(1))
    /\ smoothed = NoSmoothed
    /\ called = NoCall
    /\ audio = AudioFeedbackNew(TRUE, 8)
    /\ thr = NoThreads
    /\ \E h \in Histories : feats = FeatureExtractorNew(h)
    /\ runner = RunnerNew
    /\ run = NoRun

NextVelocity == \E current \in Samples : VelocityCall(current)

SpecVelocity == InitVelocity /\ [][NextVelocity]_vars

-----------------------------------------------------------------------------
(* Claims *)

(* The positions of a fed sequence that complete a rep. *)
Completions(seq) ==
    {i \in 2..Len(seq) : seq[i - 1] = "ASCENDING" /\ seq[i] \in {"START", "TOP"}}

SamplePhases == <<"START", "DESCENDING", "BOTTOM", "ASCENDING", "START">>

(* C1: on a fresh or reset RepCounter, after any fed phase sequence the
   count is the number of positions i >= 2 whose phase is START or TOP and
   whose predecessor is ASCENDING (so the first update never counts and
   every later update adds 1 exactly there and 0 elsewhere), prev is the
   phase fed last, and the sample sequence START, DESCENDING, BOTTOM,
   ASCENDING, START gives 0 before its last element and 1 after it. *)
C1_RepCounterCounts ==
    /\ reps.rep_count = Cardinality(Completions(fed))
    /\ reps.prev = IF fed = <<>> THEN None ELSE fed[Len(fed)]
    /\ last.kind = "rep_update" =>
          reps.rep_count - last.rep_before =
             IF Len(fed) \in Completions(fed) THEN 1 ELSE 0
    /\ fed = SubSeq(SamplePhases, 1, 4) => reps.rep_count = 0
    /\ fed = SamplePhases => reps.rep_count = 1

C1_Witness ==
    /\ fed = SamplePhases
    /\ reps.rep_count = 1
    /\ last.kind = "rep_update" /\ last.rep_before = 0

(* C2: on a processed frame that does not switch the exercise, the
   rep_count returned by RepCounter.update is the count returned on the
   frame before or that count plus 1. *)
C2_RepCountMonotone ==
    [][current_ex' = current_ex =>
          reps'.rep_count \in {reps.rep_count, reps.rep_count + 1}]_vars

C2_Witness ==
    /\ last.kind = "frame" /\ ~last.swapped
    /\ last.rep_before = 1 /\ reps.rep_count = 2

(* The indices of the rules of phase p whose predicate is true of f. *)
TrueRules(m, p, f) ==
    {i \in 1..Len(m.transitions[p]) : Holds(m.transitions[p][i].condition, f, m.th)}

(* C3: after FiniteStateMachine.update the current state is the target of
   the lowest-numbered rule, in registration order, among the rules of the
   state the call started in whose predicate is true of the features, even
   when a later rule of that state or a rule of the new state is true as
   well; it is the state the call started in when no such rule is true or
   none is registered. *)
C3_AtMostOneTransition ==
    last.kind = "fsm_update" =>
        LET rules == fsm.transitions[last.phase_in]
            T == TrueRules(fsm, last.phase_in, feat)
        IN  IF T = {} THEN fsm.current = last.phase_in
            ELSE fsm.current =
                   rules[CHOOSE i \in T : \A j \in T : i <= j].to_state

C3_Witness ==
    /\ last.kind = "fsm_update"
    /\ fsm.current # last.phase_in
    /\ LET rules == fsm.transitions[last.phase_in]
           T == TrueRules(fsm, last.phase_in, feat)
       IN  \E i \in T, j \in T : i < j /\ rules[i].to_state # rules[j].to_state
                                       /\ fsm.current = rules[i].to_state
    /\ \E k \in TrueRules(fsm, fsm.current, feat) :
          fsm.transitions[fsm.current][k].to_state # fsm.current

(* The frame processed last was a frame of exercise ex. *)
FrameOf(ex) == last.kind = "frame" /\ current_ex = ex

Warned(w) == \E i \in 1..Len(phase_score.warnings) : phase_score.warnings[i] = w

(* C4: in each variant a frame that finds the FSM in DESCENDING with the
   tracked velocity above vel_eps and the tracked angle above the bottom
   threshold moves it to ASCENDING (not to BOTTOM, and not leaving it in
   DESCENDING), and a frame that finds it in ASCENDING with the stand
   thresholds met moves it to START (pushup: TOP) and rep_count grows by
   one on that frame. *)
C4_ShallowRepCounted ==
    /\ FrameOf("squat") =>
        /\ (last.phase_in = "DESCENDING" /\ feat.knee_vel_avg > cfg.squat.vel_eps
              /\ feat.knee_angle_avg > cfg.squat.bottom_knee)
           => fsm.current = "ASCENDING"
        /\ (last.phase_in = "ASCENDING"
              /\ feat.knee_angle_avg >= cfg.squat.stand_knee
              /\ feat.hip_angle_avg >= cfg.squat.stand_hip)
           => (fsm.current = "START" /\ reps.rep_count = last.rep_before + 1)
    /\ FrameOf("pushup") =>
        /\ (last.phase_in = "DESCENDING" /\ feat.elbow_vel_avg > cfg.pushup.vel_eps
              /\ feat.elbow_angle_avg > cfg.pushup.bottom_elbow)
           => fsm.current = "ASCENDING"
        /\ (last.phase_in = "ASCENDING"
              /\ feat.elbow_angle_avg >= cfg.pushup.top_elbow
              /\ feat.shoulder_hip_ankle_angle_avg >= cfg.pushup.plank_line)
           => (fsm.current = "TOP" /\ reps.rep_count = last.rep_before + 1)
    /\ FrameOf("lunge") =>
        /\ (last.phase_in = "DESCENDING" /\ feat.front_knee_vel > cfg.lunge.vel_eps
              /\ feat.front_knee_angle > cfg.lunge.bottom_front_knee)
           => fsm.current = "ASCENDING"
        /\ (last.phase_in = "ASCENDING"
              /\ feat.front_knee_angle >= cfg.lunge.stand_front_knee
              /\ feat.back_knee_angle >= cfg.lunge.stand_back_knee)
           => (fsm.current = "START" /\ reps.rep_count = last.rep_before + 1)

(* A rep was completed on the last frame without a BOTTOM frame, all its
   DESCENDING frames above the bottom threshold. *)
C4_Witness ==
    /\ FrameOf("squat")
    /\ rep_frames.completed /\ ~rep_frames.bottom_seen
    /\ rep_frames.min_desc > cfg.squat.bottom_knee
    /\ reps.rep_count = last.rep_before + 1

(* C5: a new SquatFSM is in START, and a squat frame moves START to
   DESCENDING iff knee_angle_avg < stand_knee and knee_vel_avg < -vel_eps,
   DESCENDING to BOTTOM iff knee_angle_avg <= bottom_knee and
   |knee_vel_avg| <= vel_eps, BOTTOM to ASCENDING iff knee_vel_avg >
   vel_eps, ASCENDING to START iff knee_angle_avg >= stand_knee and
   hip_angle_avg >= stand_hip. *)
C5_SquatGuards ==
    FrameOf("squat") =>
        LET th == cfg.squat
            k == feat.knee_angle_avg
            v == feat.knee_vel_avg
        IN  /\ last.swapped => last.phase_in = "START"
            /\ last.phase_in = "START" =>
                 (fsm.current = "DESCENDING" <=>
                    (k < th.stand_knee /\ v < 0 - th.vel_eps))
            /\ last.phase_in = "DESCENDING" =>
                 (fsm.current = "BOTTOM" <=>
                    (k <= th.bottom_knee /\ v <= th.vel_eps /\ 0 - v <= th.vel_eps))
            /\ last.phase_in = "BOTTOM" =>
                 (fsm.current = "ASCENDING" <=> v > th.vel_eps)
            /\ last.phase_in = "ASCENDING" =>
                 (fsm.current = "START" <=>
                    (k >= th.stand_knee /\ feat.hip_angle_avg >= th.stand_hip))

C5_Witness ==
    /\ FrameOf("squat")
    /\ last.phase_in = "DESCENDING" /\ fsm.current = "BOTTOM"
    /\ feat.knee_angle_avg <= cfg.squat.bottom_knee

(* C6: a new PushupFSM is in TOP, and a pushup frame moves TOP to
   DESCENDING iff elbow_angle_avg < top_elbow and elbow_vel_avg < -vel_eps,
   DESCENDING to BOTTOM iff elbow_angle_avg <= bottom_elbow and
   |elbow_vel_avg| <= vel_eps, BOTTOM to ASCENDING iff elbow_vel_avg >
   vel_eps, ASCENDING to TOP iff elbow_angle_avg >= top_elbow and
   shoulder_hip_ankle_angle_avg >= plank_line; a frame that finds the FSM
   in ASCENDING with the plank line below plank_line leaves it in
   ASCENDING and rep_count as it was. *)
C6_PushupGuards ==
    FrameOf("pushup") =>
        LET th == cfg.pushup
            e == feat.elbow_angle_avg
            v == feat.elbow_vel_avg
            line == feat.shoulder_hip_ankle_angle_avg
        IN  /\ last.swapped => last.phase_in = "TOP"
            /\ last.phase_in = "TOP" =>
                 (fsm.current = "DESCENDING" <=>
                    (e < th.top_elbow /\ v < 0 - th.vel_eps))
            /\ last.phase_in = "DESCENDING" =>
                 (fsm.current = "BOTTOM" <=>
                    (e <= th.bottom_elbow /\ v <= th.vel_eps /\ 0 - v <= th.vel_eps))
            /\ last.phase_in = "BOTTOM" =>
                 (fsm.current = "ASCENDING" <=> v > th.vel_eps)
            /\ last.phase_in = "ASCENDING" =>
                 (fsm.current = "TOP" <=>
                    (e >= th.top_elbow /\ line >= th.plank_line))
            /\ (last.phase_in = "ASCENDING" /\ line < th.plank_line) =>
                 (fsm.current = "ASCENDING" /\ reps.rep_count = last.rep_before)

(* Elbows fully extended in ASCENDING, plank line sagging: no TOP, no rep. *)
C6_Witness ==
    /\ FrameOf("pushup")
    /\ last.phase_in = "ASCENDING" /\ fsm.current = "ASCENDING"
    /\ feat.elbow_angle_avg >= cfg.pushup.top_elbow
    /\ feat.shoulder_hip_ankle_angle_avg < cfg.pushup.plank_line
    /\ reps.rep_count = last.rep_before

(* C7: a new LungeFSM is in START, and a lunge frame moves START to
   DESCENDING iff front_knee_angle < stand_front_knee and front_knee_vel <
   -vel_eps, DESCENDING to BOTTOM iff front_knee_angle <= bottom_front_knee
   and back_knee_angle <= bottom_back_knee and |front_knee_vel| <= vel_eps,
   BOTTOM to ASCENDING iff front_knee_vel > vel_eps, ASCENDING to START iff
   front_knee_angle >= stand_front_knee and back_knee_angle >=
   stand_back_knee. *)
C7_LungeGuards ==
    FrameOf("lunge") =>
        LET th == cfg.lunge
            fk == feat.front_knee_angle
            bk == feat.back_knee_angle
            v == feat.front_knee_vel
        IN  /\ last.swapped => last.phase_in = "START"
            /\ last.phase_in = "START" =>
                 (fsm.current = "DESCENDING" <=>
                    (fk < th.stand_front_knee /\ v < 0 - th.vel_eps))
            /\ last.phase_in = "DESCENDING" =>
                 (fsm.current = "BOTTOM" <=>
                    (fk <= th.bottom_front_knee /\ bk <= th.bottom_back_knee
                       /\ v <= th.vel_eps /\ 0 - v <= th.vel_eps))
            /\ last.phase_in = "BOTTOM" =>
                 (fsm.current = "ASCENDING" <=> v > th.vel_eps)
            /\ last.phase_in = "ASCENDING" =>
                 (fsm.current = "START" <=>
                    (fk >= th.stand_front_knee /\ bk >= th.stand_back_knee))

(* Front knee deep and still, back knee not lowered: no BOTTOM. *)
C7_Witness ==
    /\ FrameOf("lunge")
    /\ last.phase_in = "DESCENDING" /\ fsm.current = "DESCENDING"
    /\ feat.front_knee_angle <= cfg.lunge.bottom_front_knee
    /\ feat.back_knee_angle > cfg.lunge.bottom_back_knee
    /\ feat.front_knee_vel = 0

(* C8: when a feature sequence is run on a new FSM variant, reset() is
   called and the same sequence is run again, the phase after each update
   of the second run is the phase after the same update of the first run,
   and reset() leaves the machine in its initial phase with an empty
   context. *)
C8_ReplayDeterministic ==
    /\ \A i \in 1..Len(det.phases2) : det.phases2[i] = det.phases1[i]
    /\ (det.run = 2 /\ det.phases2 = <<>>) =>
          (fsm.current = fsm.initial /\ fsm.ctx = <<>>)

C8_Witness ==
    /\ det.run = 2
    /\ Len(det.phases2) = 3
    /\ det.phases2 = <<"DESCENDING", "ASCENDING", fsm.initial>>

(* The frame scored last was scored in ASCENDING and the frame scored
   before it in DESCENDING or BOTTOM. *)
TurnaroundFrame ==
    fsm.current = "ASCENDING" /\ last.prev_in \in {"DESCENDING", "BOTTOM"}

(* The frame scored last was scored in START or TOP and the frame scored
   before it in ASCENDING. *)
RepCompleteFrame ==
    fsm.current \in {"START", "TOP"} /\ last.prev_in = "ASCENDING"

(* C9: in a squat, 'Insufficient squat depth' is produced only on a frame
   scored in ASCENDING whose previously scored frame was in DESCENDING or
   BOTTOM (so on no BOTTOM frame and on no later ASCENDING frame); it is
   produced on that frame whenever the least knee_angle_avg over the rep's
   DESCENDING frames exceeds bottom_knee_max; and a completed rep with such
   a minimum has exactly one frame carrying it. *)
C9_SquatDepthOncePerRep ==
    FrameOf("squat") =>
        /\ Warned("Insufficient squat depth") => TurnaroundFrame
        /\ (TurnaroundFrame /\ rep_frames.min_desc > cfg.form.squat.bottom_knee_max)
              => Warned("Insufficient squat depth")
        /\ rep_frames.n_depth <= 1
        /\ (rep_frames.completed
              /\ rep_frames.min_desc > cfg.form.squat.bottom_knee_max)
              => rep_frames.n_depth = 1

(* A shallow squat rep has been completed, after at least one more
   ASCENDING frame behind the turnaround, with one warned frame. *)
C9_Witness ==
    /\ FrameOf("squat")
    /\ rep_frames.completed
    /\ rep_frames.min_desc > cfg.form.squat.bottom_knee_max
    /\ rep_frames.n_depth = 1
    /\ ~Warned("Insufficient squat depth")

(* C10 as stated: every depth warning of squat, pushup and lunge is
   produced on a turnaround frame, and at most one frame of a rep carries
   one. *)
C10_DepthOnlyAtTurnaround ==
    last.kind = "frame" =>
        /\ HasDepthWarning(phase_score.warnings) => TurnaroundFrame
        /\ rep_frames.n_depth <= 1

(* C10 amended: a squat or pushup depth warning is produced only on a
   turnaround frame, a lunge depth warning only on a frame scored in START
   whose previously scored frame was in ASCENDING, and at most one frame of
   a rep carries a depth warning. *)
C10_DepthWarningFrames ==
    last.kind = "frame" =>
        /\ HasDepthWarning(phase_score.warnings) =>
              IF current_ex = "lunge" THEN RepCompleteFrame ELSE TurnaroundFrame
        /\ rep_frames.n_depth <= 1

(* A shallow lunge is warned on the frame of its return to START, which is
   the frame that completes the second rep. *)
C10_Witness ==
    /\ FrameOf("lunge")
    /\ Warned("Front knee not bending enough")
    /\ RepCompleteFrame /\ ~TurnaroundFrame
    /\ rep_frames.n_depth = 1
    /\ reps.rep_count = 2

(* C11: in a lunge, a frame scored in START right after a frame scored in
   ASCENDING, reached with the rep-scored flag false, leaves the front and
   back knee minima gathered over the rep's DESCENDING, BOTTOM and ASCENDING
   frames set and unchanged, and sets the flag; a top-phase frame that finds
   the flag set clears the minima, and clears the flag (a frame that
   completes a rep sets it again when it is scored); a top-phase frame that
   follows a top-phase frame carries no depth warning, and a rep has at most
   one frame with a depth warning. *)
C11_LungeDeferredReset ==
    (FrameOf("lunge") /\ ~last.swapped) =>
        /\ (RepCompleteFrame /\ ~last.scored_in) =>
               /\ last.min_front_in # NoAngle
               /\ last.min_back_in # NoAngle
               /\ form.min_front_knee = last.min_front_in
               /\ form.min_back_knee = last.min_back_in
               /\ form.lunge_rep_scored
        /\ (fsm.current \in TopPhases /\ last.scored_in) =>
               /\ form.min_front_knee = NoAngle
               /\ form.min_back_knee = NoAngle
               /\ form.lunge_rep_scored = RepCompleteFrame
        /\ (fsm.current \in TopPhases /\ last.prev_in \in TopPhases) =>
               ~HasDepthWarning(phase_score.warnings)
        /\ rep_frames.n_depth <= 1

(* The idle START frame after a shallow lunge was scored: the minima that
   gave the warning one frame earlier are cleared, with the flag, and the
   frame carries no depth warning. *)
C11_Witness ==
    /\ FrameOf("lunge") /\ ~last.swapped
    /\ fsm.current = "START" /\ last.prev_in = "START"
    /\ last.scored_in
    /\ last.min_front_in > form.th.bottom_front_knee_max
    /\ form.min_front_knee = NoAngle /\ form.min_back_knee = NoAngle
    /\ ~form.lunge_rep_scored
    /\ rep_frames.n_depth = 0
    /\ reps.rep_count = 1

(* The exercise whose FSM variant m is: the variant that registers m's
   rules. *)
VariantOf(m) == {ex \in Exercises : m.transitions = FSM_MAP(ex, cfg).transitions}

(* C12: a processed frame whose label differs from the active exercise
   finds, at its FSM update, a new FSM of the label in its initial phase, a
   new evaluator of the label with no minima, no previous phase and the
   rep-scored flag false, and the counter at 0 with no previous phase, and
   a frame whose label is the active exercise rebuilds nothing; after every
   processed frame the FSM variant, the evaluator's exercise and current_ex
   are the same exercise, and the FSM and the evaluator hold that
   exercise's thresholds. *)
C12_SwapRebuildsTogether ==
    last.kind = "frame" =>
        /\ last.swapped = (last.ex_before # current_ex)
        /\ last.swapped =>
               /\ last.phase_in = FSM_MAP(current_ex, cfg).initial
               /\ last.prev_in = None
               /\ last.min_knee_in = NoAngle /\ last.min_elbow_in = NoAngle
               /\ last.min_front_in = NoAngle /\ last.min_back_in = NoAngle
               /\ ~last.scored_in
               /\ last.rep_before = 0
               /\ reps.rep_count = 0
        /\ ~last.swapped => last.rep_before = last.count_before
        /\ VariantOf(fsm) = {current_ex}
        /\ fsm.initial = FSM_MAP(current_ex, cfg).initial
        /\ fsm.th = cfg[current_ex]
        /\ form.exercise = current_ex
        /\ form.th = cfg.form[current_ex]
        /\ reps.prev = fsm.current
        /\ form.prev_phase = fsm.current

(* A switch from a squat with one counted rep to a pushup: the frame found
   a PushupFSM in TOP and the counter back at 0. *)
C12_Witness ==
    /\ last.kind = "frame" /\ last.swapped
    /\ last.ex_before = "squat" /\ last.count_before = 1
    /\ current_ex = "pushup"
    /\ last.phase_in = "TOP" /\ last.rep_before = 0
    /\ reps = [rep_count |-> 0, prev |-> fsm.current]

(* C13: in the mapping returned by SignalSmoother.update, every key of the
   call that ends in "_vel" or "_vel_avg" carries the raw value passed for it
   in that call, and no filter is kept for such a key, for the EMA and the
   Kalman method and after any earlier calls. *)
C13_VelocityNotSmoothed ==
    smoothed.calls > 0 =>
        /\ DOMAIN smoothed.out = DOMAIN smoothed.signals
        /\ \A k \in DOMAIN smoothed.signals :
               (EndsWith(k, <<"vel">>) \/ EndsWith(k, <<"vel", "avg">>)) =>
                   /\ smoothed.out[k] = smoothed.signals[k]
                   /\ smoother.filters[k] = NoFilter

(* The third call passes 80 for every key after two calls that passed 170:
   the angle comes back smoothed, both velocities come back raw. *)
C13_Witness ==
    /\ smoothed.calls = 3
    /\ DOMAIN smoothed.signals = {"knee_angle_avg", "knee_vel_avg", "front_knee_vel"}
    /\ \A k \in DOMAIN smoothed.signals : smoothed.signals[k] = Num(80)
    /\ smoothed.out["knee_angle_avg"] # Num(80)
    /\ smoothed.out["knee_vel_avg"] = Num(80)
    /\ smoothed.out["front_knee_vel"] = Num(80)
    /\ smoother.method = "kalman"

(* The accepted text of the speak call that returned last is the item in
   the channel, or is the item the worker took next after it was put. *)
LeftInChannel ==
    \/ audio.q = <<thr.ret.text>>
    \/ /\ Len(thr.taken) > thr.caller.taken_before
       /\ thr.taken[thr.caller.taken_before + 1] = thr.ret.text

(* C14: the channel never holds more than one item; in the middle of a
   speak call the calling thread can always take its next step, whatever the
   worker does or fails to do; and when a speak call that accepted a text has
   returned, also a call that found the channel full, the channel holds that
   text and nothing else, unless the worker has taken that text. *)
C14_SpeakNeverBlocks ==
    /\ Len(audio.q) <= 1
    /\ thr.caller.pc \in {"speak_put", "speak_drop", "speak_reput"} =>
           ENABLED SpeakStep
    /\ (thr.caller.pc = "idle" /\ thr.ret.call = "speak" /\ thr.ret.accepted
           /\ audio.has_q) =>
           /\ thr.caller.put
           /\ LeftInChannel

(* The worker is busy with the first text, the second was pending, and the
   third call replaced it: the third text is the one in the channel. *)
C14_Witness ==
    /\ thr.caller.pc = "idle" /\ thr.ret.call = "speak" /\ thr.ret.accepted
    /\ thr.ret.found_full
    /\ thr.worker.pc = "speak" /\ thr.worker.text # thr.ret.text
    /\ audio.q = <<thr.ret.text>>
    /\ thr.calls = 3 /\ Len(thr.taken) = 1
    /\ Len(thr.dropped) = 1 /\ thr.dropped[1] \notin {thr.ret.text, thr.worker.text}

(* C15: when a close call made on an enabled AudioFeedback has returned,
   the shutdown signal has been put in the channel, in place of a pending
   text if there was one: it is in the channel or the worker has taken it;
   a worker that takes the signal ends, and a worker ends in no other way
   than taking it or failing to start its engine; every step of a close call
   can be taken whatever the worker does, the join ending at once with an
   ended worker and at the timeout otherwise, so every one of several close
   calls returns. *)
C15_CloseIdempotent ==
    /\ thr.caller.pc \in {"close_put", "close_drop", "close_reput", "close_join"} =>
           ENABLED CloseStep
    /\ (thr.caller.pc = "idle" /\ thr.ret.call = "close" /\ thr.ret.accepted) =>
           /\ thr.ret.joined \in {"ended", "timeout"}
           /\ \/ audio.q = <<None>>
              \/ /\ thr.taken # <<>> /\ thr.taken[Len(thr.taken)] = None
                 /\ thr.worker.pc = "done"
    /\ (thr.taken # <<>> /\ thr.taken[Len(thr.taken)] = None) =>
           thr.worker.pc = "done"
    /\ thr.worker.pc = "done" =>
           \/ thr.taken # <<>> /\ thr.taken[Len(thr.taken)] = None
           \/ ~audio.enabled
    /\ thr.worker.pc # "crashed"

(* The third call is a close that follows a close: the worker took the
   signal of the earlier call and ended, and this call put the signal again
   and found the worker ended. *)
C15_Witness ==
    /\ thr.calls = 3 /\ thr.caller.pc = "idle"
    /\ thr.ret.call = "close" /\ thr.ret.accepted /\ thr.ret.joined = "ended"
    /\ thr.now > 100
    /\ thr.worker.pc = "done" /\ audio.enabled
    /\ audio.q = <<None>>

(* C16: an exception of stop/say/runAndWait ends neither the worker nor
   anything else: after a failed delivery the worker is back at q.get() (or
   further), the AudioFeedback is still enabled and its fields are those the
   calls left, a call in progress can take its next step, and a worker
   waiting at q.get() with an item in the channel can take it. *)
C16_SpeechFailureSwallowed ==
    thr.worker.failures > 0 =>
        /\ thr.worker.pc \in {"get", "speak", "done"}
        /\ audio.enabled /\ audio.engine = "engine"
        /\ audio.last_spoken_text \in Texts \ {""}
        /\ (thr.worker.pc = "get" /\ audio.q # <<>>) => ENABLED WorkerGet
        /\ thr.caller.pc \in {"speak_put", "speak_drop", "speak_reput"} =>
               ENABLED SpeakStep
        /\ thr.worker.pc = "done" => thr.taken[Len(thr.taken)] = None

(* The delivery of the first text failed, and the worker has taken the
   second text and delivered it. *)
C16_Witness ==
    /\ thr.worker.failures = 1 /\ thr.worker.spoken = 1
    /\ Len(thr.taken) = 2 /\ thr.taken[1] # thr.taken[2]
    /\ thr.worker.text = thr.taken[2]
    /\ thr.worker.pc = "get"
    /\ thr.ret.call = "speak" /\ thr.ret.accepted

(* C17: in every state of a session, and so after every processed frame,
   the values of summary['warnings_breakdown'] add up to
   summary['warnings_count'], also when the active exercise has changed. *)
C17_BreakdownSumsToCount ==
    BagCardinality(runner.summary.warnings_breakdown)
        = runner.summary.warnings_count

(* A pass of the loop that read a frame of the given kind. *)
ReadA(kind) ==
    /\ run.pc = "loop"
    /\ run'.reads = run.reads + 1
    /\ run'.last_read = kind

(* The core state the loop keeps from frame to frame. *)
CoreKept ==
    UNCHANGED <<feats, smoother, current_ex, fsm, reps, form, runner>>

(* C18: a frame for which the pose source reports no detection changes
   none of the core state (feature histories, smoother filters, active
   exercise, FSM, rep counter, evaluator, frame index, rep buffer, running
   statistics, summary), and the loop goes on to the next frame; only the
   quit key, polled after every frame that is shown, ends it. *)
C18_NoDetectionSkipsFrame ==
    [][ReadA("nodetect") =>
          /\ CoreKept
          /\ run'.pc = IF run'.quit THEN "finalize" ELSE "loop"]_vars

(* No detection in the middle of a squat, after which the loop is at its
   head again with the descent still in progress. *)
C18_Witness ==
    /\ run.last_read = "nodetect"
    /\ run.pc = "loop"
    /\ runner.frame_idx = 2
    /\ fsm.current = "DESCENDING"
    /\ form.min_knee # NoAngle

(* C19: a detected frame that lacks a required joint is skipped (no
   feature computation, no update of FSM, rep counter, evaluator, feedback,
   logs or summary), the state stays as it was before the frame, and the
   loop continues with the next frame. *)
C19_MissingJointSkipsFrame ==
    [][ReadA("partial") =>
          /\ CoreKept
          /\ audio' = audio
          /\ run'.pc = IF run'.quit THEN "finalize" ELSE "loop"]_vars

(* C20: when readFrame returns no frame the loop ends without raising and
   finalization follows: the stream is stopped, both loggers are closed,
   the summary is written when a path was given, and the summary is
   returned; no frame is processed after the first missing frame. *)
C20_EndOfStreamFinalizes ==
    /\ [](run.eos =>
            /\ run.pc \in {"finalize", "done"}
            /\ run.pc = "finalize" => ENABLED RunFinalize
            /\ run.pc = "done" =>
                   /\ run.stream.stopped
                   /\ run.writer # "open"
                   /\ ~runner.frame_logger.open
                   /\ ~runner.rep_logger.open
                   /\ run.save_summary_path =>
                          run.summary_file = <<runner.summary>>
                   /\ run.returned = <<runner.summary>>)
    /\ [][run.eos =>
            /\ run'.reads = run.reads
            /\ runner'.frame_idx = runner.frame_idx
            /\ runner'.summary = runner.summary
            /\ runner'.frame_logger.rows = runner.frame_logger.rows
            /\ UNCHANGED <<feats, smoother, current_ex, fsm, reps, form>>]_vars
    /\ (run.eos ~> run.pc = "done")

(* A video run whose stream ends after two processed frames and whose
   summary, with a path given, has been written and returned. *)
C20_Witness ==
    /\ run.eos
    /\ run.pc = "done"
    /\ run.save_summary_path
    /\ runner.frame_idx = 2
    /\ run.summary_file = <<runner.summary>>
    /\ run.writer = "released"

(* C21: a missing threshold for the exercise being activated is a fatal
   error raised in _swap_exercise itself, never later in a per-frame
   predicate or scoring lookup, and a failed switch does not leave
   current_ex naming an exercise whose FSM and evaluator were not built. *)
C21_MissingThresholdFatalAtSwitch ==
    /\ last.kind \notin {"raised_update", "raised_score"}
    /\ last.kind = "raised_swap" =>
           /\ current_ex = last.ex_before
           /\ form.exercise = current_ex

(* C22: after the squat trace [170,150,120,95,96,120,150,172] rep_count is
   1, the trace has drawn no warning when 95 <= bottom_knee_max and exactly
   one, 'Insufficient squat depth', otherwise, and the mean score is 1 minus
   0.3 times the number of warnings divided by the number of frames (the
   scores, in tenths, add up to 10 per frame minus 3 per warning). *)
C22_EndToEndSquat ==
    runner.frame_idx = Len(SquatTrace) =>
        /\ reps.rep_count = 1
        /\ runner.score_n = Len(SquatTrace)
        /\ CopiesIn("Insufficient squat depth", runner.warning_counter)
               = IF 95 <= cfg.form.squat.bottom_knee_max THEN 0 ELSE 1
        /\ BagCardinality(runner.warning_counter)
               = CopiesIn("Insufficient squat depth", runner.warning_counter)
        /\ runner.score_sum
               = 10 * runner.score_n - 3 * BagCardinality(runner.warning_counter)

(* The trace has been fed under a depth limit below 95 and a strict bottom
   threshold that was never met: the rep is counted through the fallback
   and its one depth warning is recorded. *)
C22_Witness ==
    /\ runner.frame_idx = Len(SquatTrace)
    /\ cfg.form.squat.bottom_knee_max = 94
    /\ cfg.squat.bottom_knee = 80
    /\ reps.rep_count = 1
    /\ BagCardinality(runner.warning_counter) = 1
    /\ runner.score_sum = 77

(* generate has returned *)
Generated == called.fn = "generate" /\ called.out # <<>>

(* The conditions under which the engine of a call may praise: no warning,
   the score at or above the threshold, and the phase in the allow-list when
   there is one. *)
PraiseAllowed(a) ==
    /\ a.ps.warnings = <<>>
    /\ a.ps.score >= a.eng.praise_threshold
    /\ a.eng.praise_phases # <<>> => a.pretty \in a.eng.praise_phases[1]

(* The praise line of a rep count: the five lines in order, again and
   again. *)
PraiseLineOf(n) ==
    CASE n % 5 = 0 -> "Good form!"
      [] n % 5 = 1 -> "Nice rep!"
      [] n % 5 = 2 -> "Looking strong!"
      [] n % 5 = 3 -> "Great technique!"
      [] n % 5 = 4 -> "Excellent movement!"

(* C23: speak_text is the first warning whenever there is a warning,
   otherwise the praise text when praise is allowed, otherwise the empty
   string; ui_text has the same priority: the warnings, then the praise,
   then the score alone. *)
C23_SpeakPriority ==
    Generated =>
        LET a == called.args
            o == called.out[1]
        IN  /\ a.ps.warnings # <<>> =>
                   /\ o.speak_text = a.ps.warnings[1]
                   /\ o.ui_text = <<"Fix", a.ps.warnings, a.ps.score>>
            /\ (a.ps.warnings = <<>> /\ PraiseAllowed(a)) =>
                   /\ o.speak_text \in {PraiseLines[i] : i \in 1..Len(PraiseLines)}
                   /\ o.ui_text = <<o.speak_text, a.ps.score>>
            /\ (a.ps.warnings = <<>> /\ ~PraiseAllowed(a)) =>
                   /\ o.speak_text = ""
                   /\ o.ui_text = <<"Score", a.ps.score>>
            /\ o.warnings = a.ps.warnings
            /\ o.score = a.ps.score

(* Two warnings with a score that would allow praise: the first warning is
   spoken. *)
C23_Witness ==
    /\ Generated
    /\ Len(called.args.ps.warnings) = 2
    /\ called.args.ps.score >= called.args.eng.praise_threshold
    /\ called.out[1].speak_text = "Insufficient squat depth"

(* C24: generate praises exactly when the warning list is empty, the score
   is at least praise_threshold and either no phase allow-list is configured
   or the phase label is in it; the praise is praise_lines[rep_count mod 5],
   so it depends on the rep count alone, walks the list in order and wraps
   around. *)
C24_PraiseRule ==
    Generated =>
        LET a == called.args
            o == called.out[1]
            praised == a.ps.warnings = <<>> /\ o.speak_text # ""
        IN  /\ praised <=> PraiseAllowed(a)
            /\ praised =>
                   /\ o.speak_text = PraiseLineOf(a.rep_count)
                   /\ o.ui_text[1] = PraiseLineOf(a.rep_count)

(* The sixth rep, praised in an allowed phase with the first line again. *)
C24_Witness ==
    /\ Generated
    /\ called.args.rep_count = 5
    /\ called.args.eng.praise_phases = <<{"Start", "Top"}>>
    /\ called.args.pretty = "Top"
    /\ called.out[1].speak_text = "Good form!"

(* C25: the score scorePhase returns is 1.0 minus 0.3 for each warning of
   the returned list, not below 0: it lies in [0,1] and is 1.0 exactly when
   the list is empty; an evaluator of an unrecognized exercise returns 1.0
   and no warning (scores in tenths). *)
C25_ScoreArithmetic ==
    called.fn = "scorePhase" =>
        LET n == Len(phase_score.warnings)
        IN  /\ phase_score.score = IF 10 - 3 * n < 0 THEN 0 ELSE 10 - 3 * n
            /\ phase_score.score \in 0..10
            /\ phase_score.score = 10 <=> n = 0
            /\ form.exercise \notin Exercises =>
                   phase_score = [score |-> 10, warnings |-> <<>>]

(* A lunge completed with both knees short of their depth: two warnings
   and the score 0.4. *)
C25_Witness ==
    /\ called.fn = "scorePhase"
    /\ form.exercise = "lunge"
    /\ Len(phase_score.warnings) = 2
    /\ phase_score.score = 4

(* The frame rows of a rep, read off the frame log: row i opens an exercise
   instance when it is the first row or names another exercise than the row
   before it, and completes a rep when its rep_count is above the count
   before it (0 at the opening of an instance). *)
OpensInstance(flog, i) == i = 1 \/ flog[i].exercise # flog[i - 1].exercise

CompletesRep(flog, i) ==
    flog[i].rep_count >
        (IF OpensInstance(flog, i) THEN 0 ELSE flog[i - 1].rep_count)

RepSegment(flog) ==
    LET n == Len(flog)
        starts == {i \in 1..n : OpensInstance(flog, i) \/ CompletesRep(flog, i - 1)}
        first == CHOOSE i \in starts : \A j \in starts : j <= i
    IN  SubSeq(flog, first, n)

(* C26: on a processed frame on which rep_count increases within the
   exercise instance exactly one rep row is logged, with rep_id the new
   rep_count and the aggregates of the frame rows logged since the previous
   rep row or the exercise switch, the completing frame included; on every
   other processed frame no rep row is logged; after every processed frame
   rep_id equals rep_count. *)
C26_RepRows ==
    [][runner'.frame_idx # runner.frame_idx =>
        LET rows == runner.rep_logger.rows
            rows2 == runner'.rep_logger.rows
            seg == RepSegment(runner'.frame_logger.rows)
        IN  /\ runner'.rep_id = reps'.rep_count
            /\ IF reps'.rep_count > last'.rep_before
               THEN /\ Len(rows2) = Len(rows) + 1
                    /\ SubSeq(rows2, 1, Len(rows)) = rows
                    /\ rows2[Len(rows2)].rep_id = reps'.rep_count
                    /\ \E top \in TopWarnings(AllWarn(seg)) :
                           rows2[Len(rows2)] =
                               FlushRep([runner EXCEPT !.rep_buffer = seg,
                                                       !.rep_logger.rows = <<>>],
                                        current_ex', reps'.rep_count,
                                        top).rep_logger.rows[1]
               ELSE rows2 = rows]_vars

(* The second rep of an exercise instance has been logged: its row starts
   after the first rep's row ends. *)
C26_Witness ==
    /\ Len(runner.rep_logger.rows) = 2
    /\ runner.rep_logger.rows[2].rep_id = 2
    /\ runner.rep_logger.rows[2].start_time > runner.rep_logger.rows[1].end_time
    /\ runner.rep_id = 2
    /\ reps.rep_count = 2

(* C27: summary["warnings_examples"] never holds more than 10 warning
   strings. *)
C27_AtMostTenExamples ==
    Len(runner.summary.warnings_examples) <= 10

In01(y) == y[2] > 0 /\ RLe(Num(0), y) /\ RLe(y, Num(1))

(* C28: ramp(x, lo, hi) lies within [0,1]; for lo < hi it is 0.0 for
   x <= lo, 1.0 for x >= hi and 0.5 at x = (lo+hi)/2; for hi <= lo it is 0.0
   for every x; and predict returns a prediction whose three scores are
   numbers, whatever the thresholds' ramps are. *)
C28_Ramp ==
    /\ called.fn = "_ramp" /\ called.out # <<>> =>
           LET x == called.args[1]
               lo == called.args[2]
               hi == called.args[3]
               y == called.out[1]
           IN  /\ In01(y)
               /\ RLe(hi, lo) => y = Num(0)
               /\ ~RLe(hi, lo) =>
                      /\ RLe(x, lo) => y = Num(0)
                      /\ RLe(hi, x) => y = Num(1)
                      /\ RAdd(x, x) = RAdd(lo, hi) => y = Rat(1, 2)
    /\ called.fn = "predict" /\ called.out # <<>> =>
           /\ In01(called.out[2].debug.pushup_score)
           /\ In01(called.out[2].debug.squat_score)
           /\ In01(called.out[2].debug.lunge_score)

(* A ramp of no width has been asked above its bounds. *)
C28_Witness ==
    /\ called.fn = "_ramp"
    /\ called.args = <<Num(2), Num(1), Num(1)>>
    /\ called.out = <<Num(0)>>

(* C29: predict returns a label among pushup, squat and lunge whose
   composite score is at least both other composite scores, the confidence
   is that score and lies in [0,1], and the diagnostics hold the three
   composite scores and the trunk, knee, elbow and symmetry inputs. *)
C29_PredictArgMax ==
    called.fn = "predict" /\ called.out # <<>> =>
        LET f == called.args[2]
            p == called.out[2]
            score == [l \in {"pushup", "squat", "lunge"} |->
                         CASE l = "pushup" -> p.debug.pushup_score
                           [] l = "squat" -> p.debug.squat_score
                           [] l = "lunge" -> p.debug.lunge_score]
        IN  /\ p.label \in {"pushup", "squat", "lunge"}
            /\ \A l \in {"pushup", "squat", "lunge"} :
                   RLe(score[l], score[p.label])
            /\ p.confidence = score[p.label]
            /\ In01(p.confidence)
            /\ DOMAIN p.debug = {"pushup_score", "squat_score", "lunge_score",
                                 "trunk", "knee_avg", "elbow_avg", "sym_knee"}
            /\ p.debug.trunk = Get(f, "shoulder_hip_ankle_angle_avg", Num(180))
            /\ p.debug.knee_avg = Get(f, "knee_angle_avg", Num(180))
            /\ p.debug.elbow_avg = Get(f, "elbow_angle_avg", Num(180))
            /\ p.debug.sym_knee = Get(f, "sym_knee", Num(0))
            /\ called.out[1].current_label = p.label

(* predict has chosen squat over a smaller push-up score. *)
C29_Witness ==
    /\ called.fn = "predict"
    /\ called.out # <<>>
    /\ called.out[2].label = "squat"
    /\ ~RLe(called.out[2].confidence, called.out[2].debug.pushup_score)
    /\ ~RLe(called.out[2].confidence, called.out[2].debug.lunge_score)
    /\ RLe(Num(0), called.out[2].debug.pushup_score)
    /\ called.out[2].debug.pushup_score # Num(0)

(* the texts the worker has taken from the channel, in order, with no two
   equal texts next to each other *)
NoRepeatedText(taken) ==
    \A i \in 1..(Len(taken) - 1) :
        taken[i] # None /\ taken[i + 1] # None => taken[i] # taken[i + 1]

(* the step is a call of speak that was ignored *)
IgnoredSpeak ==
    /\ thr'.calls # thr.calls
    /\ thr'.caller.pc = "idle"
    /\ thr'.ret.call = "speak"
    /\ ~thr'.ret.accepted

(* C30: the worker is never handed two equal texts in a row, and a call of
   speak that is ignored (empty text, the text accepted last, or a text
   within change_gap_s of the last accepted one) changes neither
   last_spoken_text, last_spoken_time nor the channel. *)
C30_NoRepeatedSpeech ==
    [][/\ NoRepeatedText(thr'.taken)
       /\ IgnoredSpeak => audio' = audio]_vars

(* the least of a set of angles, None for the empty set *)
LeastAngle(vs) ==
    IF vs = {} THEN NoAngle ELSE CHOOSE v \in vs : \A u \in vs : v <= u

(* C31: after every scored frame of a squat or pushup evaluator, min_knee
   and min_elbow are the least knee_angle_avg and elbow_angle_avg over the
   frames scored in DESCENDING since the last frame scored in START, TOP or
   RESET (frames scored in BOTTOM or ASCENDING add nothing), and both are
   None right after a frame scored in START, TOP or RESET. *)
C31_MinimaOverDescending ==
    called.fn = "scorePhase" /\ form.exercise \in {"squat", "pushup"} =>
        /\ form.min_knee = LeastAngle({p[1] : p \in called.desc})
        /\ form.min_elbow = LeastAngle({p[2] : p \in called.desc})
        /\ called.args[1] \in TopPhases =>
               form.min_knee = NoAngle /\ form.min_elbow = NoAngle

(* A squat evaluator has scored descending frames at 90 degrees and then a
   frame in ASCENDING: the minimum is that of the descent. *)
C31_Witness ==
    /\ called.fn = "scorePhase"
    /\ form.exercise = "squat"
    /\ called.args[1] = "ASCENDING"
    /\ {p[1] : p \in called.desc} = {90}
    /\ form.min_knee = 90
    /\ form.prev_phase = "ASCENDING"

(* C32: the velocity returned for a sample is 0.0 for the first sample ever
   seen and otherwise the sample minus the sample of the call before it, and
   the rolling buffer never holds more than `history` samples. *)
C32_VelocityIsLastDifference ==
    called.fn = "_velocity" =>
        /\ called.out[1] = IF Len(fed) = 1 THEN 0
                           ELSE fed[Len(fed)] - fed[Len(fed) - 1]
        /\ Len(feats.knee_hist) <= feats.history

(* C32 as the code has it: with a history of at least 2 the velocity is 0.0
   for the first sample ever seen and otherwise the sample minus the sample
   of the call before it; with a history below 2 the buffer never holds two
   samples and the velocity is always 0.0; the buffer never holds more than
   `history` samples. *)
C32_VelocityWithinHistory ==
    called.fn = "_velocity" =>
        /\ feats.history >= 2 =>
               called.out[1] = IF Len(fed) = 1 THEN 0
                               ELSE fed[Len(fed)] - fed[Len(fed) - 1]
        /\ feats.history < 2 => called.out[1] = 0
        /\ Len(feats.knee_hist) <= feats.history

(* The default history of 5 has rolled over and the sample has risen from
   120 to 170. *)
C32_Witness ==
    /\ called.fn = "_velocity"
    /\ feats.history = 5
    /\ Len(fed) = MaxSamples
    /\ Len(feats.knee_hist) = 5
    /\ fed[Len(fed) - 1] = 120
    /\ called.out[1] = 50

(* C33: in forced mode predict is never called (the classifier's
   current_label stays None); the exercise instance is built on the first
   processed frame and on no later one; every frame row and every drawHUD
   carries the forced label with confidence 1.0, and the diagnostics are
   empty; the rep_count of the frame rows never decreases. *)
C33_ForcedModeBypassesClassifier ==
    forced_exercise # None =>
        LET rows == runner.frame_logger.rows
        IN  /\ runner.classifier.current_label = None
            /\ runner.frame_idx >= 1 =>
                   current_ex = forced_exercise /\ form.exercise = forced_exercise
            /\ last.kind = "frame" /\ last.swapped => runner.frame_idx = 1
            /\ \A i \in 1..Len(rows) :
                   rows[i].exercise = forced_exercise /\ rows[i].conf = 1000
            /\ runner.hud # <<>> =>
                   runner.hud[1] = [label |-> forced_exercise,
                                    confidence |-> 1000, debug |-> {}]
            /\ \A i \in 1..Len(rows) : \A j \in i..Len(rows) :
                   rows[i].rep_count <= rows[j].rep_count

(* A forced squat run has logged four frames, the last of which completed a
   rep, long after the instance was built. *)
C33_Witness ==
    /\ forced_exercise = "squat"
    /\ Len(runner.frame_logger.rows) = 4
    /\ runner.frame_logger.rows[4].rep_count = 1
    /\ runner.frame_logger.rows[1].rep_count = 0
    /\ ~last.swapped
    /\ runner.hud # <<>>

(* The velocity the FSM of an exercise reads. *)
TrackedVelocity(ex, f) ==
    CASE ex = "squat"  -> f.knee_vel_avg
      [] ex = "pushup" -> f.elbow_vel_avg
      [] ex = "lunge"  -> f.front_knee_vel

(* C34: an FSM in DESCENDING that is updated with a frame whose tracked
   velocity is above vel_eps leaves DESCENDING in that update, whatever the
   angles of the frame. *)
C34_NoStallInDescending ==
    /\ last.kind = "frame"
    /\ last.phase_in = "DESCENDING"
    /\ cfg[current_ex].vel_eps >= 0
    /\ TrackedVelocity(current_ex, feat) > cfg[current_ex].vel_eps
    => fsm.current # "DESCENDING"

(* C35: with the FSM threshold bottom_knee at or below the form threshold
   bottom_knee_max, no frame of a squat rep whose phases have passed through
   BOTTOM carries 'Insufficient squat depth'. *)
C35_BottomRepHasNoDepthWarning ==
    /\ FrameOf("squat")
    /\ cfg.squat.bottom_knee <= cfg.form.squat.bottom_knee_max
    /\ rep_frames.bottom_seen
    => ~Warned("Insufficient squat depth")

(* C36: once close has placed the shutdown sentinel in the channel, no call
   of speak takes it out again: the get_nowait of speak's overflow branch
   never removes the sentinel (so the worker finds it and ends). *)
C36_SpeakKeepsSentinel ==
    [][(thr.caller.pc = "speak_drop" /\ thr'.caller.pc = "speak_reput")
          => (audio.q = <<>> \/ Head(audio.q) # None)]_vars

(* The top phase of an exercise: TOP for pushup, START for squat and lunge. *)
TopOf(ex) == IF ex = "pushup" THEN "TOP" ELSE "START"

(* The phase changes a single update may make. *)
Successors(ex) ==
    {<<TopOf(ex), "DESCENDING">>, <<"DESCENDING", "BOTTOM">>,
     <<"DESCENDING", "ASCENDING">>, <<"BOTTOM", "ASCENDING">>,
     <<"ASCENDING", TopOf(ex)>>}

(* C37: a single update changes the phase only along top->DESCENDING,
   DESCENDING->BOTTOM, DESCENDING->ASCENDING, BOTTOM->ASCENDING or
   ASCENDING->top, where top is START for squat and lunge and TOP for
   pushup; no other phase (RESET, the other exercise's top) is ever
   current; and a frame on which rep_count grows comes after at least one
   DESCENDING frame of the same rep. *)
C37_PhaseSuccessors ==
    last.kind = "frame" =>
        /\ fsm.current \in {TopOf(current_ex), "DESCENDING", "BOTTOM", "ASCENDING"}
        /\ fsm.current # last.phase_in
              => <<last.phase_in, fsm.current>> \in Successors(current_ex)
        /\ reps.rep_count > last.rep_before => rep_frames.min_desc # NoAngle

(* A pushup rep that went through BOTTOM has been counted on the frame that
   took the FSM from ASCENDING to TOP. *)
C37_Witness ==
    /\ FrameOf("pushup")
    /\ last.phase_in = "ASCENDING" /\ fsm.current = "TOP"
    /\ reps.rep_count > last.rep_before
    /\ rep_frames.bottom_seen
    /\ rep_frames.min_desc # NoAngle

(* C38: in a lunge a frame carries a depth warning only if rep_count grew on
   that frame, and a frame on which rep_count grows is scored against the
   minima of its own rep: it carries 'Front knee not bending enough' exactly
   when the least front knee angle of the rep's DESCENDING, BOTTOM and
   ASCENDING frames exceeds bottom_front_knee_max, and 'Back knee not
   lowering enough' exactly when the least back knee angle of those frames
   exceeds bottom_back_knee_max. *)
C38_LungeDepthOfOwnRep ==
    FrameOf("lunge") =>
        /\ HasDepthWarning(phase_score.warnings)
              => reps.rep_count > last.rep_before
        /\ reps.rep_count > last.rep_before =>
              /\ Warned("Front knee not bending enough")
                    <=> rep_frames.min_front > cfg.form.lunge.bottom_front_knee_max
              /\ Warned("Back knee not lowering enough")
                    <=> rep_frames.min_back > cfg.form.lunge.bottom_back_knee_max

(* The composite scores of the prediction predict has returned. *)
ScoreOf(l) ==
    CASE l = "pushup" -> called.out[2].debug.pushup_score
      [] l = "squat"  -> called.out[2].debug.squat_score
      [] l = "lunge"  -> called.out[2].debug.lunge_score

LabelOrder == <<"pushup", "squat", "lunge">>

Maximal(i) == \A j \in 1..3 : RLe(ScoreOf(LabelOrder[j]), ScoreOf(LabelOrder[i]))

(* C39: predict returns the first label, in the order pushup, squat, lunge,
   whose composite score is maximal, so among equal maximal scores the
   earliest in that order (pushup when all three are 0), whatever label the
   classifier predicted before. *)
C39_TieBreakFirstInOrder ==
    called.fn = "predict" /\ called.out # <<>> =>
        \E i \in 1..3 :
            /\ called.out[2].label = LabelOrder[i]
            /\ Maximal(i)
            /\ \A j \in 1..(i - 1) : ~Maximal(j)

(* predict has returned squat for equal squat and lunge scores above the
   push-up score, on a classifier whose previous label was lunge. *)
C39_Witness ==
    /\ called.fn = "predict"
    /\ called.out # <<>>
    /\ called.args[1].current_label = "lunge"
    /\ called.out[2].label = "squat"
    /\ RLe(ScoreOf("squat"), ScoreOf("lunge"))
    /\ RLe(ScoreOf("lunge"), ScoreOf("squat"))
    /\ ~RLe(ScoreOf("squat"), ScoreOf("pushup"))

(* predict has returned pushup for three scores of 0, on a classifier whose
   previous label was squat. *)
C39_AllZero ==
    /\ called.fn = "predict"
    /\ called.out # <<>>
    /\ called.args[1].current_label = "squat"
    /\ called.out[2].label = "pushup"
    /\ \A l \in Exercises : RLe(ScoreOf(l), Num(0))

=============================================================================
